---- MODULE Spec2Model ----
(***************************************************************************)
(* godot_docgen: the scene graph resolver (scenedef.py), the retry loop    *)
(* and the node-script binder pass of load_files (godot_docgen.py), and    *)
(* the diagnostic counters (utils.py, state.py).                           *)
(*                                                                         *)
(* A .tscn file is a header (its format number) followed by a sequence of  *)
(* lines.  Python objects with identity (NodeDef, TypeName) live in two    *)
(* heaps, so the aliasing made by shallow copies is kept.                  *)
(***************************************************************************)
EXTENDS Integers, Sequences, FiniteSets, TLC

\* Python's None, for the optional strings
NONE == "None"

\* ------------------------------------------------------------------------
\* dictionaries
\* ------------------------------------------------------------------------
EmptyMap == [k \in {} |-> NONE]

Put(m, k, v) == [x \in DOMAIN m \cup {k} |-> IF x = k THEN v ELSE m[x]]

Pop(m, k) == [x \in DOMAIN m \ {k} |-> m[x]]

Last(s) == s[Len(s)]

Front(s) == SubSeq(s, 1, Len(s) - 1)

\* list.pop(i), i counted from 1
RemoveAt(s, i) == SubSeq(s, 1, i - 1) \o SubSeq(s, i + 1, Len(s))

Range(s) == {s[i] : i \in DOMAIN s}

\* ------------------------------------------------------------------------
\* the lines of a .tscn file
\* ------------------------------------------------------------------------
\* [ext_resource type="..." path="res://..." id="..."]
ExtLine(id, type, path) ==
    [k |-> "ext", id |-> id, type |-> type, path |-> path]

\* [sub_resource type="..." id="..."]
SubLine(id, type) == [k |-> "sub", id |-> id, type |-> type]

\* [node name="..." type="..." parent="..." instance=ExtResource("...")];
\* an attribute the line does not carry is NONE
NodeLine(name, parent, type, instance) ==
    [k |-> "node", name |-> name, parent |-> parent, type |-> type,
     instance |-> instance]

\* a property line `key = value`: script says the text "script" occurs in
\* it, ref is "ext" for key = ExtResource("id"), "sub" for
\* key = SubResource("id"), "none" for any other value
PropLine(script, ref, id) ==
    [k |-> "prop", script |-> script, ref |-> ref, id |-> id]

\* [connection signal="..." from="..." to="..." method="..."]
ConnLine(signal, from, to, method) ==
    [k |-> "connection", signal |-> signal, from |-> from, to |-> to,
     method |-> method]

\* any other bracketed section header, such as [editable path="..."]
SectionLine == [k |-> "section"]

\* an empty line, "\n"
BlankLine == [k |-> "blank"]

\* readline() at the end of the file returns ''
EofLine == [k |-> "eof"]

\* the value None of the parameter `line`
NoLine == [k |-> "none"]

\* line.startswith('[')
StartsWithBracket(l) == l.k \in {"ext", "sub", "node", "connection", "section"}

\* `while line:` and `while line := file.readline().strip()`
Truthy(l) == l.k # "eof"

StripTruthy(l) == l.k \notin {"eof", "blank"}

\* 'script' in line
HasScript(l) == l.k = "prop" /\ l.script

\* 'ExtResource' in line, 'SubResource' in line
HasExtResource(l) ==
    \/ l.k = "prop" /\ l.ref = "ext"
    \/ l.k = "node" /\ l.instance # NONE

HasSubResource(l) == l.k = "prop" /\ l.ref = "sub"

\* match_extres.search(line), match_subres.search(line) find a match
MatchExtres(l) == l.k = "prop" /\ l.ref = "ext"

MatchSubres(l) == l.k = "prop" /\ l.ref = "sub"

\* file.readline() with the file head before line number pos
ReadLine(file, pos) ==
    IF pos <= Len(file.lines) THEN file.lines[pos] ELSE EofLine

\* ------------------------------------------------------------------------
\* diagnostics
\* ------------------------------------------------------------------------
\* print_error: the count after one call, with state.error the given sink
PrintError(sink, count) == IF sink = NONE THEN count ELSE count + 1

\* ------------------------------------------------------------------------
\* NodeDef objects
\* ------------------------------------------------------------------------
\* NodeDef.__init__: no name yet, the class attributes for the rest.
\* type is an index into the heap of TypeName objects, 0 for None.
NewNode ==
    [name |-> NONE, defname |-> "node", type |-> 0, script_path |-> NONE,
     script |-> NONE, children |-> <<>>, resources |-> <<>>,
     deprecated |-> NONE, experimental |-> NONE]

\* NodeDef.copy: a new object; the children list is a new list holding the
\* same child objects, the TypeName object is shared
CopyNode(n) ==
    [NewNode EXCEPT !.children = n.children, !.type = n.type,
                    !.resources = n.resources,
                    !.script_path = n.script_path, !.script = n.script]

\* the path without the parent
NodePathFlat(parent, name) == IF parent = NONE THEN "." ELSE name

\* the path of a declared node
NodePath(parent, name) ==
    IF parent = NONE THEN "."
    ELSE IF parent = "." THEN name
    ELSE parent \o "/" \o name

\* the path of a child during the walk over an instanced subtree
ChildPath(parent, name) ==
    IF parent = "." THEN name ELSE parent \o "/" \o name

\* the depth-first walk that enters an instanced subtree into the node map;
\* frontier is a stack of <<path, node>>
RECURSIVE WalkInstance(_, _, _)
WalkInstance(hp, nodes, frontier) ==
    IF frontier = <<>> THEN nodes
    ELSE LET top    == Last(frontier)
             parent == top[1]
             node   == top[2]
             kids   == hp[node].children
             pushed == [i \in 1..Len(kids) |->
                           <<ChildPath(parent, hp[kids[i]].name), kids[i]>>]
         IN WalkInstance(hp, Put(nodes, parent, node), Front(frontier) \o pushed)

\* ------------------------------------------------------------------------
\* NodeDef.from_tscn_file
\* ------------------------------------------------------------------------
\* The parse state ps holds the locals of SceneDef._parse_file and what the
\* parse can change outside them:
\*   file, pos      the open file and the position of its head
\*   line           the local `line` of _parse_file
\*   ext, sub       ext_resources and sub_resources, by id
\*   nodes          the node map `nodes`, path -> NodeDef
\*   heap, types    the NodeDef and TypeName objects
\*   errors, sink   state.num_errors and state.error
\*   status         "run", or how the call ended: "exists" (NodeExists
\*                  raised, with epath), "fault" (another exception, named
\*                  in fault), "notready" (ScenesNotParsed)
\*   ret            the value from_tscn_file returned
\*   root, signals  self.root (0 while the attribute is not set) and
\*                  self.signals, with sigorder the order of its keys

Fault(ps, what) == [ps EXCEPT !.status = "fault", !.fault = what]

\* the lines that follow the node's declaration, up to an empty line
RECURSIVE PropLoop(_, _)
PropLoop(ps, n) ==
    LET l  == ReadLine(ps.file, ps.pos)
        p1 == [ps EXCEPT !.pos = ps.pos + 1]
    IN IF ~StripTruthy(l) THEN [p1 EXCEPT !.ret = NoLine]
       ELSE IF HasScript(l) THEN
            IF ~MatchExtres(l)
            THEN PropLoop([p1 EXCEPT !.errors = PrintError(ps.sink, ps.errors)], n)
            ELSE IF l.id \notin DOMAIN ps.ext THEN Fault(p1, "KeyError")
            ELSE PropLoop([p1 EXCEPT !.heap[n].script_path = ps.ext[l.id].path], n)
       ELSE IF HasExtResource(l) THEN
            IF ~MatchExtres(l) THEN Fault(p1, "TypeError")
            ELSE IF l.id \notin DOMAIN ps.ext THEN Fault(p1, "KeyError")
            ELSE PropLoop([p1 EXCEPT !.heap[n].resources =
                              Append(@, <<ps.file.path, "ext", l.id>>)], n)
       ELSE IF HasSubResource(l) THEN
            IF ~MatchSubres(l) THEN Fault(p1, "TypeError")
            ELSE IF l.id \notin DOMAIN ps.sub THEN Fault(p1, "KeyError")
            ELSE PropLoop([p1 EXCEPT !.heap[n].resources =
                              Append(@, <<ps.file.path, "sub", l.id>>)], n)
       ELSE PropLoop(p1, n)

\* the data of the scene's root is copied and the subtree is not walked
InstanceSceneNoWalk(ps, reg, n, id, path) ==
    IF id \notin DOMAIN ps.ext THEN Fault(ps, "KeyError")
    ELSE IF ps.ext[id].scene = NONE THEN Fault(ps, "AttributeError")
    ELSE IF reg[ps.ext[id].scene].root = 0 THEN Fault(ps, "AttributeError")
    ELSE LET r == ps.heap[reg[ps.ext[id].scene].root]
         IN [ps EXCEPT !.heap[n].defname = "scene",
                       !.heap[n].type = r.type,
                       !.heap[n].script = r.script,
                       !.heap[n].script_path = r.script_path,
                       !.heap[n].deprecated = r.deprecated,
                       !.heap[n].experimental = r.experimental,
                       !.heap[n].resources = @ \o r.resources,
                       !.heap[n].children = @ \o r.children]

\* the node is an instance of a scene: copies the data of that scene's root
\* and enters the subtree into the node map
InstanceScene(ps, reg, n, id, path) ==
    IF id \notin DOMAIN ps.ext THEN Fault(ps, "KeyError")
    ELSE IF ps.ext[id].scene = NONE THEN Fault(ps, "AttributeError")
    ELSE IF reg[ps.ext[id].scene].root = 0 THEN Fault(ps, "AttributeError")
    ELSE LET r  == ps.heap[reg[ps.ext[id].scene].root]
             h1 == [ps.heap EXCEPT
                      ![n].defname = "scene",
                      ![n].type = r.type,
                      ![n].script = r.script,
                      ![n].script_path = r.script_path,
                      ![n].deprecated = r.deprecated,
                      ![n].experimental = r.experimental,
                      ![n].resources = @ \o r.resources,
                      ![n].children = @ \o r.children]
         IN [ps EXCEPT !.heap = h1,
                       !.nodes = WalkInstance(h1, ps.nodes, <<<<path, n>>>>)]

\* the properties of the node are read unless the instancing raised
NodeProperties(p4, n) == IF p4.status = "fault" THEN p4 ELSE PropLoop(p4, n)

\* the node's type: a TypeName of its own when the line carries a type, the
\* data of the instanced scene when it carries an instance
NodeType(p3, reg, n, l, path) ==
    IF l.type # NONE
    THEN [p3 EXCEPT !.types = Append(@, l.type),
                    !.heap[n].type = Len(p3.types) + 1]
    ELSE IF l.instance # NONE
    THEN InstanceScene(p3, reg, n, l.instance, path)
    ELSE p3

\* node_map[parent].children.append(self)
AppendToParent(p2, n, l) ==
    IF l.parent = NONE THEN p2
    ELSE [p2 EXCEPT !.heap[p2.nodes[l.parent]].children = Append(@, n)]

\* the node is in the node map: its parent, its type, its properties
EnteredNode(p2, reg, n, l, path) ==
    IF l.parent # NONE /\ l.parent \notin DOMAIN p2.nodes
    THEN Fault(p2, "KeyError")
    ELSE NodeProperties(NodeType(AppendToParent(p2, n, l), reg, n, l, path), n)

\* if path in node_map: raise NodeExists(path); node_map[path] = self
EnterNode(p1, reg, n, l, path) ==
    IF path \in DOMAIN p1.nodes
    THEN [p1 EXCEPT !.status = "exists", !.epath = path]
    ELSE EnteredNode([p1 EXCEPT !.nodes = Put(@, path, n)], reg, n, l, path)

\* the line l is the one from_tscn_file works on: returned when it declares
\* no node, and otherwise super().__init__('node', name) and the path
ReadDeclaration(p0, reg, n, l) ==
    IF l.k # "node" THEN [p0 EXCEPT !.ret = l]
    ELSE EnterNode([p0 EXCEPT !.heap[n].defname = "node",
                              !.heap[n].name = l.name,
                              !.heap[n].deprecated = NONE,
                              !.heap[n].experimental = NONE],
                   reg, n, l, NodePath(l.parent, l.name))

\* from_tscn_file(file, ext_res_map, sub_res_map, node_map, line) on the
\* NodeDef n; arg is the argument `line`: a line is read when it is None
FromTscnFile(ps, reg, n, arg) ==
    IF arg.k = "none"
    THEN ReadDeclaration([ps EXCEPT !.pos = ps.pos + 1], reg, n,
                         ReadLine(ps.file, ps.pos))
    ELSE ReadDeclaration(ps, reg, n, arg)

\* ------------------------------------------------------------------------
\* SceneDef._parse_file
\* ------------------------------------------------------------------------
\* line = scene_file.readline()
Advance(ps) == [ps EXCEPT !.line = ReadLine(ps.file, ps.pos), !.pos = ps.pos + 1]

\* ResourceDef.from_tscn_data for an external resource
ExtResourceDef(l) == [type |-> l.type, path |-> l.path, scene |-> NONE]

SceneMissingNever(reg, path) == FALSE

\* the test that defers the file: the sub-scene is not registered yet
SceneMissing(reg, path) == path \notin DOMAIN reg

\* the loop that locates the external resources
RECURSIVE ExtLoop(_, _)
ExtLoop(ps, reg) ==
    LET l == ps.line
    IN IF ~Truthy(l) THEN ps
       ELSE IF l.k = "ext" THEN
            LET p1 == [ps EXCEPT !.ext = Put(@, l.id, ExtResourceDef(l))]
            IN IF l.type = "PackedScene"
               THEN IF SceneMissing(reg, l.path)
                    THEN [p1 EXCEPT !.status = "notready"]
                    ELSE IF l.path \notin DOMAIN reg THEN Fault(p1, "KeyError")
                    ELSE ExtLoop(Advance([p1 EXCEPT !.ext[l.id].scene = l.path]), reg)
               ELSE ExtLoop(Advance(p1), reg)
       ELSE IF StartsWithBracket(l) THEN ps
       ELSE ExtLoop(Advance(ps), reg)

\* the loop that locates the internal resources; current is the id of the
\* sub-resource being read, "" before the first one
RECURSIVE SubLoop(_, _)
SubLoop(ps, current) ==
    LET l == ps.line
    IN IF ~Truthy(l) THEN ps
       ELSE IF l.k = "sub" THEN
            SubLoop(Advance([ps EXCEPT !.sub =
                         Put(@, l.id, [type |-> l.type, sub_resources |-> <<>>])]),
                    l.id)
       ELSE IF StartsWithBracket(l) THEN ps
       ELSE IF current # "" /\ HasExtResource(l) THEN
            IF l.id \in DOMAIN ps.ext
            THEN SubLoop(Advance([ps EXCEPT !.sub[current].sub_resources =
                                     Append(@, <<"ext", l.id>>)]), current)
            ELSE [ps EXCEPT !.status = "badnested"]
       ELSE IF current # "" /\ HasSubResource(l) THEN
            IF l.id \in DOMAIN ps.sub
            THEN SubLoop(Advance([ps EXCEPT !.sub[current].sub_resources =
                                     Append(@, <<"sub", l.id>>)]), current)
            ELSE [ps EXCEPT !.status = "badnested"]
       ELSE SubLoop(Advance(ps), current)

\* line = node.from_tscn_file(...) returned or raised for the NodeDef n: a
\* NodeExists raised inside the handler is not caught, and neither is any
\* other exception; the result has the local `node` in cur
NodeParsed(r, n) ==
    IF r.status = "exists" THEN Fault(r, "NodeExists")
    ELSE IF r.status = "fault" THEN r
    ELSE [r EXCEPT !.line = r.ret, !.cur = n]

\* except NodeExists as e: node = nodes.pop(e.path); node = node.copy()
Override(r1) ==
    [r1 EXCEPT !.status = "run",
               !.nodes = Pop(@, r1.epath),
               !.heap = Append(@, CopyNode(r1.heap[r1.nodes[r1.epath]])),
               !.overrides = Append(@, r1.epath)]

\* the try statement after its first call ended as r1 for the NodeDef n:
\* the handler calls from_tscn_file on the copy with the same `line`
HandleNodeExists(r1, reg, n, line) ==
    IF r1.status = "exists"
    THEN NodeParsed(FromTscnFile(Override(r1), reg, Len(r1.heap) + 1, line),
                    Len(r1.heap) + 1)
    ELSE NodeParsed(r1, n)

\* node = NodeDef(self.state); try: line = node.from_tscn_file(..., line)
\* except NodeExists as e: ...
ParseNode(ps, reg) ==
    HandleNodeExists(FromTscnFile([ps EXCEPT !.heap = Append(@, NewNode)],
                                  reg, Len(ps.heap) + 1, ps.line),
                     reg, Len(ps.heap) + 1, ps.line)

RECURSIVE NodeLoop(_, _)
\* if line is not None: break
NodeLoopNext(r, reg) ==
    IF r.status = "fault" THEN r
    ELSE IF r.line.k # "none" THEN r
    ELSE NodeLoop(r, reg)

\* while True: parse a node; if line is not None: break
NodeLoop(ps, reg) == NodeLoopNext(ParseNode(ps, reg), reg)

\* ConnectionDef(); signal is <<>> for None, <<document, name>> for the
\* SignalDef of that name in a class document
NewConnection(name) ==
    [name |-> name, emitters |-> <<>>, receivers |-> <<>>, signal |-> <<>>]

\* each endpoint that is a node is kept by itself
ConnectEndpointsApart(p1, l) ==
    [p1 EXCEPT !.signals[l.signal].emitters =
                   IF l.from \in DOMAIN p1.nodes
                   THEN Append(@, p1.nodes[l.from]) ELSE @,
               !.signals[l.signal].receivers =
                   IF l.to \in DOMAIN p1.nodes
                   THEN Append(@, <<p1.nodes[l.to], l.method>>) ELSE @]

\* emitter = nodes.get(from); receiver = nodes.get(to); both are appended
\* when both are nodes, and nothing is otherwise
ConnectEndpointsEmitterFirst(p1, l) ==
    IF l.from \in DOMAIN p1.nodes
    THEN [p1 EXCEPT !.signals[l.signal].emitters =
                        Append(@, p1.nodes[l.from]),
                    !.signals[l.signal].receivers =
                        IF l.to \in DOMAIN p1.nodes
                        THEN Append(@, <<p1.nodes[l.to], l.method>>) ELSE @]
    ELSE p1

ConnectEndpoints(p1, l) ==
    IF l.from \in DOMAIN p1.nodes /\ l.to \in DOMAIN p1.nodes
    THEN [p1 EXCEPT !.signals[l.signal].emitters =
                        Append(@, p1.nodes[l.from]),
                    !.signals[l.signal].receivers =
                        Append(@, <<p1.nodes[l.to], l.method>>)]
    ELSE p1

\* the loop that reads the connections
RECURSIVE ConnLoop(_)
ConnLoop(ps) ==
    LET l == ps.line
    IN IF ~Truthy(l) THEN ps
       ELSE IF l.k # "connection" THEN ConnLoop(Advance(ps))
       ELSE IF l.signal = NONE THEN ConnLoop(Advance(ps))
       ELSE IF l.signal \in DOMAIN ps.signals
       THEN ConnLoop(Advance(ConnectEndpoints(ps, l)))
       ELSE ConnLoop(Advance(ConnectEndpoints(
                [ps EXCEPT !.signals = Put(@, l.signal, NewConnection(l.signal)),
                           !.sigorder = Append(@, l.signal)], l)))

\* the state of a parse at the start of _parse_file
StartParse(file, hp, tp, errors, sink) ==
    [file |-> file, pos |-> 1, line |-> NoLine, ext |-> EmptyMap,
     sub |-> EmptyMap, nodes |-> EmptyMap, heap |-> hp, types |-> tp,
     errors |-> errors, sink |-> sink, status |-> "run", fault |-> NONE,
     epath |-> NONE, ret |-> NoLine, cur |-> 0, root |-> 0,
     name |-> file.path, signals |-> EmptyMap, sigorder |-> <<>>,
     overrides |-> <<>>]

\* the nodes are read: the connections, and the file is read to its end
ReadConnections(p5) ==
    IF p5.status = "fault" THEN p5
    ELSE [ConnLoop(p5) EXCEPT !.status = "ok"]

\* self.root = node; super().__init__('scene', self.root.name); the loop
\* over the other nodes
ReadNodes(p3, reg) ==
    IF p3.status = "fault" THEN p3
    ELSE ReadConnections(NodeLoop([p3 EXCEPT !.root = p3.cur,
                                              !.name = p3.heap[p3.cur].name],
                                  reg))

\* the resources are read: return when no node follows, else the root node
ReadRoot(p2, reg) ==
    IF p2.status # "run" THEN p2
    ELSE IF p2.line.k # "node" THEN [p2 EXCEPT !.status = "noroot"]
    ELSE ReadNodes(ParseNode(p2, reg), reg)

\* the external resources are read: the internal resources
ReadSubResources(p1, reg) ==
    IF p1.status # "run" THEN p1
    ELSE ReadRoot(SubLoop(p1, ""), reg)

\* the header: parse_for_value raises when the line has no format, and
\* _parse_file returns when the format is not 3
ReadHeader(p0, reg) ==
    IF p0.file.format = NONE THEN Fault(p0, "AttributeError")
    ELSE IF p0.file.format # "3" THEN [p0 EXCEPT !.status = "badversion"]
    ELSE ReadSubResources(ExtLoop(Advance(p0), reg), reg)

\* _parse_file; the result's status is "ok" when the whole file was read,
\* "badversion", "badnested" or "noroot" for the three early returns,
\* "notready" for ScenesNotParsed and "fault" for any other exception
ParseFileBody(file, reg, hp, tp, errors, sink) ==
    ReadHeader(StartParse(file, hp, tp, errors, sink), reg)

ParseFile(file, reg, hp, tp, errors, sink) ==
    ParseFileBody(file, reg, hp, tp, errors, sink)

\* ------------------------------------------------------------------------
\* the project on disk: scene files, scripts and the symbol table
\* ------------------------------------------------------------------------
\* A scene file: path is its key in state.scenes ('res://' + the relative
\* path), format the number of its header (NONE: the header has none).
SceneFile(path, format, lines) ==
    [path |-> path, format |-> format, lines |-> lines]

PS == "PackedScene"

\* the scene files a project is drawn from, by name
Catalogue ==
    [ \* a: a root, a child and a grandchild, each with a script (of a class
      \* with a document, of a class without one, of a file that is missing),
      \* and four connections, the second and the fourth with an endpoint
      \* that is no node
      a_plain |-> SceneFile("a", "3", <<
          ExtLine("1", "Script", "s2"), ExtLine("2", "Script", "s5"),
          ExtLine("3", "Script", "s9"), ExtLine("4", "Texture2D", "t1"), BlankLine,
          NodeLine("A", NONE, "Node2D", NONE), PropLine(TRUE, "ext", "1"),
          PropLine(FALSE, "ext", "4"), BlankLine,
          NodeLine("Child", ".", "Sprite2D", NONE), PropLine(TRUE, "ext", "2"),
          BlankLine,
          NodeLine("Leaf", "Child", "Label", NONE), PropLine(TRUE, "ext", "3"),
          BlankLine,
          ConnLine("pressed", "Child", ".", "on_pressed"),
          ConnLine("pressed", "Gone", ".", "on_gone"),
          ConnLine("pressed", "Child/Leaf", "Child", "on_leaf"),
          ConnLine("ready", ".", "Gone", "on_ready") >>),
      \* a: written by another version of the engine
      a_oldformat |-> SceneFile("a", "2", <<
          ExtLine("1", PS, "z"), BlankLine,
          NodeLine("A", NONE, "Node2D", NONE), BlankLine >>),
      \* a: instances b (a cycle with the b files that instance a)
      a_needs_b |-> SceneFile("a", "3", <<
          ExtLine("1", PS, "b"), BlankLine,
          NodeLine("A", NONE, "Node2D", NONE), BlankLine,
          NodeLine("Sub", ".", NONE, "1"), BlankLine >>),
      \* a: the path X is declared twice, other nodes and a connection follow
      a_override |-> SceneFile("a", "3", <<
          BlankLine,
          NodeLine("A", NONE, "Node2D", NONE), BlankLine,
          NodeLine("X", ".", "Sprite2D", NONE), BlankLine,
          NodeLine("X", ".", "Label", NONE), BlankLine,
          NodeLine("Y", ".", "Timer", NONE), BlankLine,
          ConnLine("timeout", "Y", "X", "on_timeout") >>),
      \* a: a node names a parent that was never declared
      a_orphan |-> SceneFile("a", "3", <<
          BlankLine,
          NodeLine("A", NONE, "Node2D", NONE), BlankLine,
          NodeLine("K", "Nope", "Label", NONE), BlankLine >>),
      \* a: no node declaration at all
      a_noroot |-> SceneFile("a", "3", <<
          ExtLine("1", "Script", "s1"), BlankLine,
          ConnLine("pressed", ".", ".", "on_pressed") >>),
      \* a: a sub-resource names an external resource that was not declared
      a_badnested |-> SceneFile("a", "3", <<
          ExtLine("1", "Texture2D", "t1"), BlankLine,
          SubLine("s_1", "AtlasTexture"), PropLine(FALSE, "ext", "1"),
          PropLine(FALSE, "ext", "9"), BlankLine,
          NodeLine("A", NONE, "Node2D", NONE), BlankLine >>),
      \* a: the script of the root is an id that was not declared
      a_badscript |-> SceneFile("a", "3", <<
          ExtLine("1", "Script", "s1"), BlankLine,
          NodeLine("A", NONE, "Node2D", NONE), PropLine(TRUE, "ext", "9"), BlankLine >>),
      \* b: instances a under M with a script of its own and adds a node
      \* below the instanced child; a signal of two emitters, the second
      \* with a document that has the signal
      b_inst_a |-> SceneFile("b", "3", <<
          ExtLine("1", PS, "a"), ExtLine("2", "Script", "s1"), BlankLine,
          NodeLine("B", NONE, "Node", NONE), BlankLine,
          NodeLine("M", ".", NONE, "1"), PropLine(TRUE, "ext", "2"), BlankLine,
          NodeLine("Extra", "M/Child", "Label", NONE), PropLine(TRUE, "ext", "2"), BlankLine,
          ConnLine("pressed", "M/Child", "M", "on_pressed"),
          ConnLine("pressed", "M/Child/Extra", "M", "on_extra") >>),
      \* b: [node name="A"] and later [node name="A" instance=ExtResource("1")]
      b_root_twice |-> SceneFile("b", "3", <<
          ExtLine("1", PS, "a"), BlankLine,
          NodeLine("A", NONE, NONE, NONE), BlankLine,
          NodeLine("A", NONE, NONE, "1"), BlankLine >>),
      \* b: instances a under M and re-declares the instanced node M/Child
      b_override_child |-> SceneFile("b", "3", <<
          ExtLine("1", PS, "a"), ExtLine("2", "Script", "s1"), BlankLine,
          NodeLine("B", NONE, "Node", NONE), BlankLine,
          NodeLine("M", ".", NONE, "1"), BlankLine,
          NodeLine("Child", "M", NONE, NONE), PropLine(TRUE, "ext", "2"), BlankLine,
          NodeLine("After", ".", "Timer", NONE), BlankLine,
          ConnLine("timeout", "After", "M/Child", "on_timeout") >>),
      \* b: an instance of an external resource that is no scene
      b_inst_texture |-> SceneFile("b", "3", <<
          ExtLine("1", "Texture2D", "t1"), BlankLine,
          NodeLine("B", NONE, "Node", NONE), BlankLine,
          NodeLine("M", ".", NONE, "1"), BlankLine >>),
      \* b: nothing but a root
      b_plain |-> SceneFile("b", "3", <<
          BlankLine, NodeLine("B", NONE, "Node", NONE), BlankLine >>),
      \* c: instances b
      c_inst_b |-> SceneFile("c", "3", <<
          ExtLine("1", PS, "b"), BlankLine,
          NodeLine("C", NONE, "Node", NONE), BlankLine,
          NodeLine("N", ".", NONE, "1"), BlankLine >>),
      \* c: names itself as a sub-scene
      c_needs_c |-> SceneFile("c", "3", <<
          ExtLine("1", PS, "c"), BlankLine,
          NodeLine("C", NONE, "Node", NONE), BlankLine >>),
      \* c: names a scene that is not in the project
      c_needs_z |-> SceneFile("c", "3", <<
          ExtLine("1", PS, "z"), BlankLine,
          NodeLine("C", NONE, "Node", NONE), BlankLine >>),
      \* c: instances a and b
      c_inst_a_b |-> SceneFile("c", "3", <<
          ExtLine("1", PS, "a"), ExtLine("2", PS, "b"), BlankLine,
          NodeLine("C", NONE, "Node", NONE), BlankLine,
          NodeLine("P", ".", NONE, "1"), BlankLine,
          NodeLine("Q", ".", NONE, "2"), BlankLine >>),
      \* d: instances c
      d_inst_c |-> SceneFile("d", "3", <<
          ExtLine("1", PS, "c"), BlankLine,
          NodeLine("D", NONE, "Node", NONE), BlankLine,
          NodeLine("O", ".", NONE, "1"), BlankLine >>),
      \* d: names a sub-scene after the section of the external resources
      d_late_ext |-> SceneFile("d", "3", <<
          SubLine("s_1", "Gradient"), BlankLine,
          ExtLine("1", PS, "z"), BlankLine,
          NodeLine("D", NONE, "Node", NONE), BlankLine >>) ]

FileNames == DOMAIN Catalogue

\* the most scene files in a project
MaxFiles == 3

\* the lists of scene files the search of the file tree can produce: any
\* files with different paths, in any order
RECURSIVE Queues(_)
Queues(n) ==
    IF n = 0 THEN {<<>>}
    ELSE LET shorter == Queues(n - 1)
         IN shorter \cup
            {Append(q, f) : q \in {s \in shorter : Len(s) = n - 1},
                            f \in FileNames}

DistinctPaths(q) ==
    \A x, y \in DOMAIN q : x # y => Catalogue[q[x]].path # Catalogue[q[y]].path

Projects == {q \in Queues(MaxFiles) : DistinctPaths(q)}

\* state.scripts: the documented scripts that define no class, by path
Scripts == [s1 |-> "doc_s1"]

\* state.classes: the symbol table, class name -> class document
Classes == [Foo |-> "doc_Foo"]

\* the signals a class document holds
DocSignals == [doc_s1 |-> {"pressed"}, doc_Foo |-> {"timeout"}]

\* What the header of a script file yields in connect_script: "missing" (no
\* such file), "empty" (no line at all), "noclass" (the scan stops on a
\* line without class_name), "noname" (class_name with no name after it),
\* or the class name it declares.  A path that is not listed is missing.
GdFiles == [s2 |-> "Foo", s4 |-> "noclass", s5 |-> "Ghost"]

GdHeader(path) == IF path \in DOMAIN GdFiles THEN GdFiles[path] ELSE "missing"

\* ------------------------------------------------------------------------
\* NodeDef.connect_script and SceneDef.connect_scripts
\* ------------------------------------------------------------------------
\* bs is the state a binder call works on: heap, types, errors, status
\* ("run" or "fault") and fault
ConnectScript(bs, n) ==
    LET node == bs.heap[n]
        path == node.script_path
        head == GdHeader(path)
    IN IF path = NONE THEN bs
       ELSE IF node.script # NONE THEN bs
       ELSE IF path \in DOMAIN Scripts
            THEN [bs EXCEPT !.heap[n].script = Scripts[path]]
       ELSE IF head = "missing" THEN [bs EXCEPT !.errors = @ + 1]
       ELSE IF head = "empty" THEN Fault(bs, "UnboundLocalError")
       ELSE IF head = "noclass" THEN [bs EXCEPT !.errors = @ + 1]
       ELSE IF head = "noname" THEN [bs EXCEPT !.errors = @ + 1]
       ELSE IF head \notin DOMAIN Classes THEN bs
       ELSE LET b1 == [bs EXCEPT !.heap[n].script = Classes[head]]
            IN IF node.type = 0 THEN Fault(b1, "AttributeError")
               ELSE [b1 EXCEPT !.types[node.type] = head]

\* the depth-first search over the nodes of a scene
RECURSIVE ConnectNodes(_, _)
ConnectNodes(bs, frontier) ==
    IF bs.status = "fault" \/ frontier = <<>> THEN bs
    ELSE LET node == Last(frontier)
         IN ConnectNodes(ConnectScript(bs, node),
                         Front(frontier) \o bs.heap[node].children)

\* no emitter gives the connection a signal
ConnectSignalNever(hp, conn, i, sig) == sig

\* the signal a connection gets from its emitters, taken in order
RECURSIVE ConnectSignal(_, _, _, _)
ConnectSignal(hp, conn, i, sig) ==
    IF i > Len(conn.emitters) THEN sig
    ELSE LET script == hp[conn.emitters[i]].script
         IN IF script # NONE /\ conn.name \in DocSignals[script]
            THEN ConnectSignal(hp, conn, i + 1, <<script, conn.name>>)
            ELSE ConnectSignal(hp, conn, i + 1, sig)

\* the nodes are connected: the signals of the scene
ConnectSignals(b1, sc) ==
    IF b1.status = "fault" THEN b1
    ELSE [b1 EXCEPT !.scene.signals =
             [name \in DOMAIN sc.signals |->
                 [sc.signals[name] EXCEPT !.signal =
                     ConnectSignal(b1.heap, sc.signals[name], 1, @)]]]

\* connect_scripts on a scene: the result has the scene in field scene
ConnectScripts(sc, hp, tp, errors) ==
    LET b0 == [heap |-> hp, types |-> tp, errors |-> errors, status |-> "run",
               fault |-> NONE, scene |-> sc]
    IN IF sc.root = 0 THEN Fault(b0, "AttributeError")
       ELSE ConnectSignals(ConnectNodes(b0, <<sc.root>>), sc)

\* ------------------------------------------------------------------------
\* load_files: the retry loop and the pass that attaches the scripts
\* ------------------------------------------------------------------------
VARIABLES
    project,     \* the scene files the search of the file tree found
    tscn,        \* the list of scene files still to parse (names of Catalogue)
    scenes,      \* state.scenes: path -> SceneDef
    order,       \* the keys of state.scenes in the order of insertion
    heap,        \* the NodeDef objects
    types,       \* the TypeName objects
    num_errors,  \* state.num_errors
    error,       \* state.error: the sink of error messages, NONE to discard
    pc,          \* where load_files stands
    i,           \* the index of the for loop (from 1), 0 when it is over
    size,        \* len(tscn) at the start of the pass
    skipped,     \* the files of this pass that were not ready
    scene,       \* the local `scene`: the SceneDef of the last attempt
    outcome,     \* how the last attempt ended
    report,      \* the files named by the failure report, in order
    passes,      \* the passes started so far
    k,           \* the next scene of the attaching pass, an index of order;
                 \* 0 until the retry loop is left
    current_class, \* state.current_class
    classes,     \* state.classes: class name -> class document
    warning,     \* state.warning: the sink of warnings, NONE to discard
    num_warnings, \* state.num_warnings
    text,        \* the documentation text given to format_text_block
    runs         \* the calls of format_text_block made so far, in order

\* what load_files works on, but for state.num_errors, state.error and
\* state.current_class
loadVars == <<project, tscn, scenes, order, heap, types, i, size, skipped,
              scene, outcome, report, passes, k>>

\* what format_text_block works on, but for the same three
textVars == <<classes, warning, num_warnings, text, runs>>

vars == <<loadVars, textVars, num_errors, error, current_class, pc>>

\* the SceneDef after _parse_file: file is the argument of parse_file,
\* nodes the local node map as the parse left it, overrides the paths the
\* NodeExists handler popped, ret the way _parse_file ended
SceneOf(r, name) ==
    [file |-> name, name |-> r.name, root |-> r.root, signals |-> r.signals,
     sigorder |-> r.sigorder, nodes |-> r.nodes, overrides |-> r.overrides,
     ret |-> r.status]

\* no SceneDef yet
NoScene ==
    [file |-> NONE, name |-> NONE, root |-> 0, signals |-> EmptyMap,
     sigorder |-> <<>>, nodes |-> EmptyMap, overrides |-> <<>>, ret |-> NONE]

\* the sinks state.error can be configured to
Sinks == {"stderr", NONE}

Init ==
    /\ project \in Projects
    /\ tscn = project
    /\ error \in Sinks
    /\ scenes = EmptyMap
    /\ order = <<>>
    /\ heap = <<>>
    /\ types = <<>>
    /\ num_errors = 0
    /\ pc = "while"
    /\ i = 0
    /\ size = 0
    /\ skipped = 0
    /\ scene = NoScene
    /\ outcome = NONE
    /\ report = <<>>
    /\ passes = 0
    /\ k = 0
    /\ current_class = NONE
    /\ classes = Classes
    /\ warning = "stderr"
    /\ num_warnings = 0
    /\ text = <<>>
    /\ runs = <<>>

\* while tscn: skipped = 0; size = len(tscn); the for loop starts at the
\* last index
StartPass ==
    /\ pc = "while"
    /\ tscn # <<>>
    /\ skipped' = 0
    /\ size' = Len(tscn)
    /\ i' = Len(tscn)
    /\ passes' = passes + 1
    /\ pc' = "for"
    /\ UNCHANGED <<project, tscn, scenes, order, heap, types, num_errors, error,
                   scene, outcome, report, k>>
    /\ UNCHANGED <<textVars, current_class>>

\* the registration also after ScenesNotParsed
RegisterDeferred(r, name, reg, ord) ==
    [parse |-> r, scene |-> SceneOf(r, name),
     scenes |-> IF r.status = "fault" THEN reg
                ELSE Put(reg, r.file.path, SceneOf(r, name)),
     order |-> IF r.status = "fault" \/ r.file.path \in DOMAIN reg
               THEN ord ELSE Append(ord, r.file.path)]

\* parse_file after _parse_file ended as r: when it returned (it did not
\* raise) state.scenes['res://' + scene_path] = self.  The result is the
\* parse state, with the registry in scenes and order.
Register(r, name, reg, ord) ==
    [parse |-> r, scene |-> SceneOf(r, name),
     scenes |-> IF r.status \notin {"notready", "fault"}
                THEN Put(reg, r.file.path, SceneOf(r, name)) ELSE reg,
     order |-> IF r.status \notin {"notready", "fault"}
                  /\ r.file.path \notin DOMAIN reg
               THEN Append(ord, r.file.path) ELSE ord]

\* SceneDef.parse_file on a new SceneDef
ParseFileCall(name, reg, ord, hp, tp, errors, sink) ==
    Register(ParseFile(Catalogue[name], reg, hp, tp, errors, sink),
             name, reg, ord)

\* the try statement of the for loop after parse_file ended as c: a file
\* that was not ready stays in the list, any other exception leaves
\* load_files, and otherwise the file is popped
Attempted(c) ==
    /\ heap' = c.parse.heap
    /\ types' = c.parse.types
    /\ num_errors' = c.parse.errors
    /\ outcome' = c.parse.status
    /\ scene' = c.scene
    /\ scenes' = c.scenes
    /\ order' = c.order
    /\ IF c.parse.status = "notready"
       THEN /\ skipped' = skipped + 1
            /\ i' = i - 1
            /\ pc' = IF i = 1 THEN "if" ELSE "for"
            /\ UNCHANGED tscn
       ELSE IF c.parse.status = "fault"
       THEN /\ pc' = "raised"
            /\ UNCHANGED <<tscn, skipped, i>>
       ELSE /\ tscn' = RemoveAt(tscn, i)
            /\ i' = i - 1
            /\ pc' = IF i = 1 THEN "if" ELSE "for"
            /\ UNCHANGED skipped

\* one iteration of the for loop: a new SceneDef parses tscn[i]
Attempt ==
    /\ pc = "for"
    /\ Attempted(ParseFileCall(tscn[i], scenes, order, heap, types,
                               num_errors, error))
    /\ UNCHANGED <<project, error, size, report, passes, k>>
    /\ current_class' = Catalogue[tscn[i]].path
    /\ UNCHANGED textVars

\* the test that ends the loop after a pass without progress
NoProgress(sk, sz) == sk = sz

\* if skipped == size: report every file left and break
EndPass ==
    /\ pc = "if"
    /\ IF NoProgress(skipped, size)
       THEN /\ report' = tscn
            /\ num_errors' = IF error = NONE THEN num_errors
                              ELSE num_errors + 1 + Len(tscn)
            /\ k' = 1
            /\ pc' = "attach"
       ELSE /\ pc' = "while"
            /\ UNCHANGED <<report, num_errors, k>>
    /\ UNCHANGED <<project, tscn, scenes, order, heap, types, error, i, size,
                   skipped, scene, outcome, passes>>
    /\ UNCHANGED <<textVars, current_class>>

\* the list is empty: the while loop is over
EndLoop ==
    /\ pc = "while"
    /\ tscn = <<>>
    /\ k' = 1
    /\ pc' = "attach"
    /\ UNCHANGED <<project, tscn, scenes, order, heap, types, num_errors, error,
                   i, size, skipped, scene, outcome, report, passes>>
    /\ UNCHANGED <<textVars, current_class>>

\* connect_scripts ended as b for the scene order[k]
Attached(b) ==
    /\ heap' = b.heap
    /\ types' = b.types
    /\ num_errors' = b.errors
    /\ IF b.status = "fault"
       THEN /\ pc' = "raised"
            /\ UNCHANGED <<scenes, k>>
       ELSE /\ scenes' = [scenes EXCEPT ![order[k]] = b.scene]
            /\ k' = k + 1
            /\ pc' = "attach"

\* for scene_path in state.scenes: scene.connect_scripts()
Attach ==
    /\ pc = "attach"
    /\ k <= Len(order)
    /\ Attached(ConnectScripts(scenes[order[k]], heap, types, num_errors))
    /\ UNCHANGED <<project, tscn, order, error, i, size, skipped, scene, outcome,
                   report, passes>>
    /\ UNCHANGED <<textVars, current_class>>

\* load_files returns
Return ==
    /\ pc = "attach"
    /\ k > Len(order)
    /\ pc' = "done"
    /\ UNCHANGED <<project, tscn, scenes, order, heap, types, num_errors, error,
                   i, size, skipped, scene, outcome, report, passes, k>>
    /\ UNCHANGED <<textVars, current_class>>

Next == StartPass \/ Attempt \/ EndPass \/ EndLoop \/ Attach \/ Return

Spec == Init /\ [][Next]_vars

\* ------------------------------------------------------------------------
\* what the properties speak about
\* ------------------------------------------------------------------------
\* the retry loop has been left: by its end, by break or by an exception
LoopLeft == k > 0 \/ pc = "raised"

\* an exception left load_files from inside the retry loop
RaisedInLoop == pc = "raised" /\ k = 0

\* line j of the file stands in the section of the external resources: no
\* other section starts before it
InExtSection(file, j) ==
    \A m \in 1..(j - 1) :
        StartsWithBracket(file.lines[m]) => file.lines[m].k = "ext"

\* the sub-scenes the external resource declarations of a file name
DeclaredScenes(file) ==
    {file.lines[j].path : j \in {x \in DOMAIN file.lines :
                                      /\ file.lines[x].k = "ext"
                                      /\ file.lines[x].type = PS
                                      /\ InExtSection(file, x)}}

\* the file names a sub-scene that is not registered
NamesUnregistered(file, reg) ==
    \E p \in DeclaredScenes(file) : p \notin DOMAIN reg

PathsOf(proj) == {Catalogue[n].path : n \in Range(proj)}

FileAt(proj, path) == CHOOSE n \in Range(proj) : Catalogue[n].path = path

Max(S) == CHOOSE x \in S : \A y \in S : y <= x

\* the scenes on the longest chain of dependencies that starts at a file,
\* followed for fuel steps at most
RECURSIVE ChainLen(_, _, _)
ChainLen(proj, n, fuel) ==
    IF fuel = 0 THEN 0
    ELSE 1 + Max({0} \cup {ChainLen(proj, FileAt(proj, d), fuel - 1) :
                              d \in DeclaredScenes(Catalogue[n]) \cap PathsOf(proj)})

LongestChain(proj) ==
    Max({0} \cup {ChainLen(proj, n, Len(proj) + 1) : n \in Range(proj)})

\* every dependency is a file of the project, and no chain closes
DepsInProject(proj) ==
    \A n \in Range(proj) : DeclaredScenes(Catalogue[n]) \subseteq PathsOf(proj)

HasCycle(proj) == LongestChain(proj) > Len(proj)

IsDag(proj) == DepsInProject(proj) /\ ~HasCycle(proj)

\* the files of the project that are not registered
Unregistered == {n \in Range(project) : Catalogue[n].path \notin DOMAIN scenes}

\* the last declaration of a file whose computed path is the given one
DeclsAt(file, path) ==
    {j \in DOMAIN file.lines :
        /\ file.lines[j].k = "node"
        /\ NodePath(file.lines[j].parent, file.lines[j].name) = path}

LastDecl(file, path) == file.lines[Max(DeclsAt(file, path))]

\* the path of the external resource a file declares under an id
ExtPath(file, id) ==
    LET j == CHOOSE x \in DOMAIN file.lines :
                 file.lines[x].k = "ext" /\ file.lines[x].id = id
    IN file.lines[j].path

\* the type name of a node, NONE when it has no TypeName
TypeOf(n) == IF heap[n].type = 0 THEN NONE ELSE types[heap[n].type]

\* the state right after a parse that read its whole file: scene is the
\* SceneDef of that parse
JustParsed == k = 0 /\ pc \in {"for", "if"} /\ outcome = "ok"

\* ------------------------------------------------------------------------
\* the retry loop
\* ------------------------------------------------------------------------
\* C1: the retry loop ends in one of two ways only: the list of scene files
\* is empty, or the pass that just ended deferred every file that was left
\* and the failure report names them
C1_LoopEndsEmptyOrReported ==
    LoopLeft => \/ tscn = <<>>
                \/ skipped = size /\ i = 0 /\ report = tscn

\* C2: when the dependencies among the files of the project form a DAG
\* whose longest chain has N scenes, no more than N passes are started, and
\* once the loop is left the list is empty and every scene is registered
C2_DagResolvesWithinChainLength ==
    IsDag(project) =>
        /\ passes <= LongestChain(project)
        /\ LoopLeft => tscn = <<>> /\ Unregistered = {}

\* C3: when the dependencies hold a cycle, the loop is left with a failure
\* report that names every unregistered file once and no registered file
C3_CycleReportsExactlyUnresolved ==
    (HasCycle(project) /\ LoopLeft) =>
        /\ Range(report) = Unregistered
        /\ Len(report) = Cardinality(Unregistered)

\* ------------------------------------------------------------------------
\* the outcome of a parse
\* ------------------------------------------------------------------------
\* C4: an attempt ends with ScenesNotParsed exactly when the file, of the
\* supported format, names in its external resources a sub-scene that is
\* not a key of state.scenes at that moment; it is raised before any node
\* is made
C4_NotReadyIffUnregisteredSubScene ==
    [][pc = "for" =>
        LET file == Catalogue[tscn[i]]
        IN /\ outcome' = "notready" <=>
                  (file.format = "3" /\ NamesUnregistered(file, scenes))
           /\ outcome' = "notready" =>
                  /\ heap' = heap /\ types' = types
                  /\ scene'.root = 0 /\ scene'.nodes = EmptyMap]_vars

\* a file was deferred while other scenes were registered
C4_Witness == outcome = "notready" /\ scenes # EmptyMap

\* C5: an attempt that ends with ScenesNotParsed leaves state.scenes, the
\* nodes and the list of files as they were, and the SceneDef it worked on,
\* which the next attempt replaces by a new one, holds nothing of the file
C5_NotReadyLeavesNothing ==
    [][(pc = "for" /\ outcome' = "notready") =>
        /\ scenes' = scenes /\ order' = order
        /\ heap' = heap /\ types' = types /\ num_errors' = num_errors
        /\ tscn' = tscn
        /\ scene' = [NoScene EXCEPT !.file = tscn[i],
                                    !.name = Catalogue[tscn[i]].path,
                                    !.ret = "notready"]]_vars

\* a file is deferred again in a second pass
C5_Witness == outcome = "notready" /\ passes = 2 /\ skipped > 0

\* C6: every scene in state.scenes was parsed to its end and has a root
C6_RegisteredOnlyWhenParsed ==
    \A p \in DOMAIN scenes : scenes[p].ret = "ok" /\ scenes[p].root # 0

\* C7: no attempt ends with an exception other than ScenesNotParsed
C7_OnlyNotReadyRaises == outcome # "fault"

\* C8: an attempt on a file of another format reports an error and ends
\* neither deferred nor with an exception, and the attaching pass does not
\* raise on the scene of such a file
C8_UnsupportedFormatAbortsOnlyThatFile ==
    [][/\ (pc = "for" /\ Catalogue[tscn[i]].format \notin {"3", NONE}) =>
            /\ num_errors' > num_errors
            /\ outcome' \notin {"notready", "fault"}
            /\ pc' # "raised"
       /\ (pc = "attach" /\ k <= Len(order)
              /\ scenes[order[k]].ret = "badversion") =>
            pc' # "raised"]_vars

\* ------------------------------------------------------------------------
\* overrides
\* ------------------------------------------------------------------------
\* C9: after a parse, every path that was declared twice is a key of the
\* node map, its node carries the later declaration's name and type, and
\* the children of its parent hold one node of that name
C9_OverrideLeavesOneNode ==
    JustParsed =>
        \A e \in Range(scene.overrides) :
            LET decl == LastDecl(Catalogue[scene.file], e)
            IN /\ e \in DOMAIN scene.nodes
               /\ heap[scene.nodes[e]].name = decl.name
               /\ decl.type # NONE => TypeOf(scene.nodes[e]) = decl.type
               /\ decl.parent # NONE =>
                     LET kids == heap[scene.nodes[decl.parent]].children
                     IN Cardinality({j \in DOMAIN kids :
                                        heap[kids[j]].name = decl.name}) = 1

\* C10: when the root is declared bare and then again as an instance of a
\* scene, the root of the parsed scene is the node stored at "." and has
\* the type, the script and the children of the root of that scene
C10_RootRedeclaredAsInstance ==
    (JustParsed /\ "." \in Range(scene.overrides)) =>
        LET file == Catalogue[scene.file]
            decl == LastDecl(file, ".")
        IN decl.instance # NONE =>
             LET src == heap[scenes[ExtPath(file, decl.instance)].root]
                 r   == heap[scene.root]
             IN /\ "." \in DOMAIN scene.nodes
                /\ scene.nodes["."] = scene.root
                /\ r.name = decl.name
                /\ r.type = src.type
                /\ r.script_path = src.script_path
                /\ r.script = src.script
                /\ r.children = src.children

\* ------------------------------------------------------------------------
\* connections
\* ------------------------------------------------------------------------
\* the connection lines of a file that name the signal and two nodes of the
\* node map, in the order of the file
FullConnections(file, nodes, name) ==
    SelectSeq(file.lines, LAMBDA l : /\ l.k = "connection"
                                     /\ l.signal = name
                                     /\ l.from \in DOMAIN nodes
                                     /\ l.to \in DOMAIN nodes)

\* the file has a property line that print_error is called for
HasInternalScript(file) ==
    \E j \in DOMAIN file.lines : HasScript(file.lines[j]) /\ ~MatchExtres(file.lines[j])

\* C11: after a parse that read the whole file, every signal a connection
\* line names has its connection record, whose emitters and receivers are
\* those of the lines of that signal with both endpoints in the node map,
\* in order: a line with an endpoint that is no node adds nothing, the
\* lines after it are read, and neither count changes for it
C11_MissingEndpointDroppedSilently ==
    [][(pc = "for" /\ outcome' = "ok") =>
        LET file == Catalogue[tscn[i]]
        IN /\ \A j \in DOMAIN file.lines :
                file.lines[j].k = "connection" =>
                  LET name == file.lines[j].signal
                      full == FullConnections(file, scene'.nodes, name)
                  IN /\ name \in DOMAIN scene'.signals
                     /\ scene'.signals[name].emitters =
                          [m \in 1..Len(full) |-> scene'.nodes[full[m].from]]
                     /\ scene'.signals[name].receivers =
                          [m \in 1..Len(full) |->
                              <<scene'.nodes[full[m].to], full[m].method>>]
           /\ ~HasInternalScript(file) =>
                 num_errors' = num_errors /\ num_warnings' = num_warnings]_vars

\* a file was parsed with two lines that name no node: one signal keeps the
\* endpoints of its other two lines, the other has a record without any
C11_Witness ==
    /\ JustParsed
    /\ scene.file = "a_plain"
    /\ Len(scene.signals["pressed"].emitters) = 2
    /\ scene.signals["ready"].emitters = <<>>
    /\ scene.signals["ready"].receivers = <<>>

\* ------------------------------------------------------------------------
\* connect_script on a script that cannot be bound
\* ------------------------------------------------------------------------
\* the node has a script reference that state.scripts does not hold, no
\* script yet, and a script file that is missing, declares no class name or
\* names a class that state.classes does not hold
ScriptUnbindable(hp, n) ==
    /\ hp[n].script_path # NONE
    /\ hp[n].script = NONE
    /\ hp[n].script_path \notin DOMAIN Scripts
    /\ GdHeader(hp[n].script_path) \notin DOMAIN Classes

\* C12: connect_script on a node whose script cannot be bound raises
\* nothing, adds one to the error count and leaves the type and the
\* document of the node as they were
C12_UnboundScriptCountsOneError ==
    pc = "attach" =>
        \A n \in DOMAIN heap :
            ScriptUnbindable(heap, n) =>
                LET b == ConnectScript([heap |-> heap, types |-> types,
                                        errors |-> num_errors, status |-> "run",
                                        fault |-> NONE, scene |-> NONE], n)
                IN /\ b.status = "run"
                   /\ b.errors = num_errors + 1
                   /\ b.heap[n] = heap[n]
                   /\ b.types = types

\* ------------------------------------------------------------------------
\* rst_generation: texts
\* ------------------------------------------------------------------------
\* A text is a sequence of characters.  A word, a run of letters and digits
\* that no operation looks into, is written as one element; every other
\* character is an element of its own.  Positions count from 0 as in the
\* source.

\* s[a:b] and s[a:]
Slice(s, a, b) == SubSeq(s, a + 1, IF b > Len(s) THEN Len(s) ELSE b)

Tail0(s, a) == SubSeq(s, a + 1, Len(s))

\* s.find(pat, start, end): the first position, -1 when there is none; a
\* negative start or end counts from the end of s
Find(s, pat, start, end) ==
    LET b == IF start >= 0 THEN start
             ELSE IF Len(s) + start < 0 THEN 0 ELSE Len(s) + start
        e == IF end < 0 THEN (IF Len(s) + end < 0 THEN 0 ELSE Len(s) + end)
             ELSE IF end > Len(s) THEN Len(s) ELSE end
        hits == {j \in b..(e - Len(pat)) : SubSeq(s, j + 1, j + Len(pat)) = pat}
    IN IF hits = {} THEN -1 ELSE CHOOSE j \in hits : \A h \in hits : j <= h

StartsWith(s, pat) == Len(s) >= Len(pat) /\ SubSeq(s, 1, Len(pat)) = pat

\* str.strip()
Strip(s) ==
    LET keep == {j \in 1..Len(s) : s[j] \notin {" ", "\n", "\t"}}
    IN IF keep = {} THEN <<>>
       ELSE SubSeq(s, CHOOSE j \in keep : \A h \in keep : j <= h, Max(keep))

\* the string a text spells
RECURSIVE Join(_)
Join(s) == IF s = <<>> THEN "" ELSE s[1] \o Join(Tail(s))

\* str.split(".")
RECURSIVE Split(_, _)
Split(s, sep) ==
    LET p == Find(s, <<sep>>, 0, Len(s))
    IN IF p = -1 THEN <<s>> ELSE <<Slice(s, 0, p)>> \o Split(Tail0(s, p + 1), sep)

\* the grave accent, a character that a string of this notation cannot hold
Grave == "<grave>"

\* str.isalnum() of one character: the words are what is alphanumeric
IsAlnum(ch) ==
    ch \notin {" ", "\n", "\t", "[", "]", "\\", "*", "_", "=", "/", ".", ",", ":",
               ";", "!", "?", "'", "\"", "(", ")", "{", "}", "<", ">", "-", Grave,
               "#", "$", "@", "|", ""}

MARKUP_ALLOWED_PRECEDENT == {" ", "-", ":", "/", "'", "\"", "<", "(", "[", "{"}

MARKUP_ALLOWED_SUBSEQUENT ==
    {" ", "-", ".", ",", ":", ";", "!", "?", "\\", "/", "'", "\"", ")", "]", "}", ">"}

RESERVED_CODEBLOCK_TAGS == {<<"codeblock">>, <<"gdscript">>, <<"csharp">>}

RESERVED_CROSSLINK_TAGS ==
    {<<"method">>, <<"constructor">>, <<"operator">>, <<"member">>, <<"signal">>,
     <<"constant">>, <<"enum">>, <<"annotation">>, <<"theme", "_", "item">>,
     <<"param">>}

is_in_tagset(tag_text, tagset) ==
    \E tag \in tagset : \/ tag_text = tag
                        \/ StartsWith(tag_text, tag \o <<" ">>)
                        \/ StartsWith(tag_text, tag \o <<"=">>)

\* TagState(raw, name, arguments, closing)
get_tag_and_args(tag_text) ==
    LET assign_pos == Find(tag_text, <<"=">>, 0, Len(tag_text))
        space_pos == Find(tag_text, <<" ">>, 0, Len(tag_text))
        cut == IF assign_pos >= 0 THEN assign_pos ELSE space_pos
        tag_name == IF cut >= 0 THEN Slice(tag_text, 0, cut) ELSE tag_text
        closing == StartsWith(tag_name, <<"/">>)
    IN [raw |-> tag_text,
        name |-> IF closing THEN Tail(tag_name) ELSE tag_name,
        arguments |-> IF cut >= 0 THEN <<Strip(Tail0(tag_text, cut + 1))>> ELSE <<>>,
        closing |-> closing]

\* the class and the member a link names, each as a string; the class is
\* state.current_class when the link has no "."
parse_link_target(link_target, cur) ==
    IF Find(link_target, <<".">>, 0, Len(link_target)) # -1
    THEN [j \in 1..Len(Split(link_target, ".")) |-> Join(Split(link_target, ".")[j])]
    ELSE <<cur, Join(link_target)>>

\* one of the loops of escape_rst: ch is escaped from pos on, before end;
\* a "_" only when no letter or digit follows it
RECURSIVE EscapeChar(_, _, _, _)
EscapeChar(txt, ch, pos, end) ==
    LET p == Find(txt, <<ch>>, pos, end)
    IN IF p = -1 THEN txt
       ELSE IF ch = "_" /\ IsAlnum(txt[p + 2])
            THEN EscapeChar(txt, ch, p + 1, end)
            ELSE EscapeChar(Slice(txt, 0, p) \o <<"\\", ch>> \o Tail0(txt, p + 1),
                            ch, p + 2, end)

\* escape_rst with the full stop escaped as well
escape_rst_stops(txt, until_pos) ==
    EscapeChar(EscapeChar(EscapeChar(EscapeChar(txt, "\\", 0, until_pos),
                                     "*", 0, until_pos),
                          "_", 0, until_pos),
               ".", 0, until_pos)

escape_rst(txt, until_pos) ==
    EscapeChar(EscapeChar(EscapeChar(txt, "\\", 0, until_pos), "*", 0, until_pos),
               "_", 0, until_pos)

\* ------------------------------------------------------------------------
\* rst_generation: the symbol table and the diagnostics
\* ------------------------------------------------------------------------
\* what the documents of state.classes hold, by document
ClassDocs ==
    [doc_Foo |->
        [name |-> "Foo", methods |-> {"bar"}, constructors |-> {},
         operators |-> {}, properties |-> {"size"}, signals |-> {"timeout"},
         annotations |-> {}, theme_items |-> [font |-> "font"],
         constants |-> {"MAX"},
         enums |-> [Mode |-> [values |-> {"ON"}, is_bitfield |-> FALSE]]],
     doc_Global |->
        [name |-> "@GlobalScope", methods |-> {}, constructors |-> {},
         operators |-> {}, properties |-> {}, signals |-> {},
         annotations |-> {}, theme_items |-> EmptyMap,
         constants |-> {"PI", "MAX"},
         enums |-> [Side |-> [values |-> {"LEFT"}, is_bitfield |-> TRUE]]]]

\* GODOT_NATIVE_CLASSES, each with its name in lower case
NativeClasses == [Node |-> "node"]

\* ts is the state a call of format_text_block works on: the symbol table,
\* state.current_class, the two sinks and the two counts, the calls of
\* print_error and print_warning made and the tags read so far (log),
\* status ("run" or "fault") and fault
PrintWarning(sink, count) == IF sink = NONE THEN count ELSE count + 1

\* print_error that reports only while the count is zero
print_error_once(ts, what) ==
    IF ts.num_errors > 0 THEN ts
    ELSE [ts EXCEPT !.log = Append(@, <<"error", what>>),
                    !.num_errors = PrintError(ts.error, @)]

print_error(ts, what) ==
    [ts EXCEPT !.log = Append(@, <<"error", what>>),
               !.num_errors = PrintError(ts.error, @)]

print_warning(ts, what) ==
    [ts EXCEPT !.log = Append(@, <<"warning", what>>),
               !.num_warnings = PrintWarning(ts.warning, @)]

\* a reference to an anchor under a label
Ref(label, anchor) ==
    <<":", "ref", ":", Grave>> \o label \o <<"<">> \o anchor \o <<">", Grave>>

\* the results of make_type, make_enum and format_codeblock: the state and
\* the text (out)
Made(ts, out) == [ts |-> ts, out |-> out]

make_type(klass, ts) ==
    IF Find(klass, <<"*">>, 0, Len(klass)) # -1
    THEN Made(ts, <<Grave, Grave>> \o klass \o <<Grave, Grave>>)
    ELSE LET is_array == Len(klass) >= 2 /\ Tail0(klass, Len(klass) - 2) = <<"[", "]">>
             link_type == Join(IF is_array THEN Slice(klass, 0, Len(klass) - 2)
                               ELSE klass)
             array(own, rst) == IF is_array
                                THEN own \o <<"\\", "[">> \o rst \o <<"\\", "]">>
                                ELSE rst
             ref_array == Ref(<<"Array">>, <<"class", "_", "Array">>)
             url(low) == <<"<", "https", ":", "/", "/", "docs", ".", "godotengine",
                           ".", "org", "/", "en", "/", "stable", "/", "classes", "/",
                           "class", "_", low, ".", "html", ">", Grave, "_">>
         IN IF link_type \in DOMAIN ts.classes
            THEN Made(ts, array(ref_array,
                                Ref(<<link_type>>, <<"class", "_", link_type>>)))
            ELSE IF link_type \in DOMAIN NativeClasses
            THEN Made(ts, array(<<Grave, "Array", " ">> \o url("array"),
                                <<Grave, link_type, " ">> \o url(NativeClasses[link_type])))
            ELSE Made(print_error(ts, "type"),
                      array(ref_array, <<Grave, Grave, link_type, Grave, Grave>>))

make_enum(t, is_bitfield, ts) ==
    LET p == Find(t, <<".">>, 0, Len(t))
        c0 == IF p >= 0 THEN Join(Slice(t, 0, p)) ELSE ts.current_class
        e0 == IF p >= 0 THEN Join(Tail0(t, p + 1)) ELSE Join(t)
        known(c) == c \in DOMAIN ts.classes
        enums(c) == DOMAIN ClassDocs[ts.classes[c]].enums
        c == IF p >= 0 THEN (IF c0 = "Variant" THEN "@GlobalScope" ELSE c0)
             ELSE IF known(c0) /\ e0 \notin enums(c0) THEN "@GlobalScope" ELSE c0
        e == IF p >= 0 /\ c0 = "Variant" THEN "Variant." \o e0 ELSE e0
        ref == Ref(<<e>>, <<"enum", "_", c, "_", e>>)
    IN IF known(c) /\ e \in enums(c)
       THEN IF is_bitfield
            THEN Made(IF ClassDocs[ts.classes[c]].enums[e].is_bitfield THEN ts
                      ELSE print_error(ts, "bitfield"),
                      <<"|", "bitfield", "|", "\\", "[">> \o ref \o <<"\\", "]">>)
            ELSE Made(ts, ref)
       ELSE Made(IF c = "Vector3" /\ e = "Axis" THEN ts
                 ELSE print_error(ts, "enum"), t)

\* GODOT_DOCS_PATTERN on a url: 0 when it does not match, else the position
\* after which ".html" ends the page
DocsMatch(url) ==
    LET prefix == <<"$", "DOCS", "_", "URL", "/">>
        ends == {q \in Len(prefix)..(Len(url) - 2) :
                    /\ Slice(url, q, q + 2) = <<".", "html">>
                    /\ q + 2 = Len(url) \/ url[q + 3] = "#"}
    IN IF StartsWith(url, prefix) /\ "\n" \notin Range(url) /\ ends # {}
       THEN Max(ends) ELSE 0

make_link(url, title) ==
    LET q == DocsMatch(url)
        page == Slice(url, 5, q)
        frag == Tail0(url, q + 2)
        label(default) == IF title # <<>> THEN title ELSE default
    IN IF q > 0 /\ frag # <<>>
       THEN <<Grave>> \o label(frag) \o <<" ", "<", ".", ".", "/">> \o page
            \o <<".", "html">> \o frag \o <<">", Grave, "_", "_">>
            \o (IF title # <<>> THEN <<>>
                ELSE <<" ", "in", " ", ":", "doc", ":", Grave, ".", ".", "/">>
                     \o page \o <<Grave>>)
       ELSE IF q > 0
       THEN <<":", "doc", ":", Grave>>
            \o (IF title # <<>> THEN title \o <<" ", "<", ".", ".", "/">> \o page \o <<">">>
                ELSE <<".", ".", "/">> \o page)
            \o <<Grave>>
       ELSE <<Grave>> \o label(url) \o <<" ", "<">> \o url \o <<">", Grave, "_", "_">>

\* ------------------------------------------------------------------------
\* rst_generation: format_codeblock and the loop over the line breaks
\* ------------------------------------------------------------------------
\* the loop of format_codeblock that removes the tabs after each line break
RECURSIVE CodeTabs(_, _, _, _)
CodeTabs(ts, code_text, code_pos, indent_level) ==
    LET p == Find(code_text, <<"\n">>, code_pos, Len(code_text))
        tabs == {n \in 0..(Len(code_text) - p - 1) :
                    \A j \in 1..n : code_text[p + 1 + j] = "\t"}
        to_skip == Max(tabs)
        t1 == IF to_skip > indent_level THEN print_error(ts, "indentation") ELSE ts
        rest == Tail0(code_text, p + to_skip + 1)
    IN IF p = -1 THEN Made(ts, code_text)
       ELSE IF rest = <<>>
       THEN CodeTabs(t1, Slice(code_text, 0, p) \o <<"\n">>, p + 1, indent_level)
       ELSE CodeTabs(t1, Slice(code_text, 0, p) \o <<"\n", " ", " ", " ", " ">> \o rest,
                     p + 5 - to_skip, indent_level)

\* the result has status "stop" for None, and else the text of the code
\* block with its opening tag in out and the text after it in post
format_codeblock(tag_state, post_text, indent_level, ts) ==
    LET end_pos == Find(post_text, <<"[", "/">> \o tag_state.name \o <<"]">>, 0,
                        Len(post_text))
        opening_formatted ==
            tag_state.name \o (IF Len(tag_state.arguments) > 0
                               THEN <<" ">> \o tag_state.arguments[1] ELSE <<>>)
        code == CodeTabs(ts, Slice(post_text, Len(opening_formatted) + 2, end_pos),
                         0, indent_level)
    IN IF end_pos = -1
       THEN [ts |-> [print_error(ts, "codeblock") EXCEPT !.status = "stop"],
             out |-> <<>>, post |-> <<>>]
       ELSE [ts |-> code.ts,
             out |-> <<"\n", "[">> \o opening_formatted \o <<"]">> \o code.out,
             post |-> Tail0(post_text, end_pos)]

\* a text starts with the opening tag of a code block
OpensCodeblock(post_text) ==
    \E tag \in RESERVED_CODEBLOCK_TAGS :
        \/ StartsWith(post_text, <<"[">> \o tag \o <<"]">>)
        \/ StartsWith(post_text, <<"[">> \o tag \o <<" ">>)

\* the loop over the line breaks of the text, from pos on
RECURSIVE BreakLines(_, _, _)
BreakLines(ts, txt, pos) ==
    LET p == Find(txt, <<"\n">>, pos, Len(txt))
        tabs == {n \in 0..(Len(txt) - p - 1) : \A j \in 1..n : txt[p + 1 + j] = "\t"}
        indent_level == Max(tabs)
        pre_text == Slice(txt, 0, p)
        post_text == Tail0(txt, p + indent_level + 1)
        tag_text == Split(Tail(post_text), "]")[1]
        result == format_codeblock(get_tag_and_args(tag_text), post_text,
                                   indent_level, ts)
    IN IF p = -1 THEN Made(ts, txt)
       ELSE IF OpensCodeblock(post_text)
       THEN IF result.ts.status = "stop" THEN Made(result.ts, <<>>)
            ELSE BreakLines(result.ts, pre_text \o result.out \o result.post,
                            p + Len(result.out))
       ELSE BreakLines(ts, pre_text \o <<"\n", "\n">> \o post_text, p + 2)

\* ------------------------------------------------------------------------
\* rst_generation: the loop over the tags of format_text_block
\* ------------------------------------------------------------------------
\* c holds the locals of the loop: ts, text, pos, tag_depth, inside_code,
\* inside_code_tag, inside_code_tabs, ignore_code_warnings,
\* has_codeblocks_gdscript, has_codeblocks_csharp, and broken (the loop was
\* left by break)

\* the end of an iteration: the text around the tag is escaped, and the tag
\* is replaced
Substituted(c, pre_text, tag_text, post_text, escape_pre, escape_post) ==
    LET pre == IF escape_pre /\ pre_text # <<>>
                  /\ Last(pre_text) \notin MARKUP_ALLOWED_PRECEDENT
               THEN pre_text \o <<"\\", " ">> ELSE pre_text
        post == IF escape_post /\ post_text # <<>>
                   /\ post_text[1] \notin MARKUP_ALLOWED_SUBSEQUENT
                THEN <<"\\", " ">> \o post_text ELSE post_text
        next_brac_pos == Find(post, <<"[">>, 0, Len(post))
    IN [c EXCEPT !.text = pre \o tag_text
                          \o (IF c.inside_code THEN post
                              ELSE EscapeChar(EscapeChar(post, "*", 0, next_brac_pos),
                                              "_", 0, next_brac_pos)),
                 !.pos = Len(pre) + Len(tag_text)]

\* a tag while inside_code is set
InsideCode(c, tag_state, pre_text, tag_text, post_text) ==
    IF tag_state.closing /\ tag_state.name = c.inside_code_tag
    THEN LET c1 == [c EXCEPT !.tag_depth = @ - 1, !.inside_code = FALSE,
                             !.ignore_code_warnings = FALSE]
         IN IF is_in_tagset(tag_state.name, RESERVED_CODEBLOCK_TAGS)
            THEN IF pre_text = <<>>
                 THEN [c1 EXCEPT !.ts = Fault(@, "IndexError")]
                 ELSE Substituted(c1, IF Last(pre_text) = "\n" THEN Front(pre_text)
                                      ELSE pre_text,
                                  <<>>, post_text, FALSE, FALSE)
            ELSE IF is_in_tagset(tag_state.name, {<<"code">>})
            THEN Substituted(c1, pre_text, <<Grave, Grave>>, post_text, FALSE, TRUE)
            ELSE Substituted(c, pre_text, tag_text, post_text, FALSE, FALSE)
    ELSE Substituted(
             IF ~c.ignore_code_warnings /\ tag_state.closing
             THEN [c EXCEPT !.ts = print_warning(@, "code")] ELSE c,
             pre_text, <<"[">> \o tag_text \o <<"]">>, post_text, FALSE, FALSE)

\* [codeblocks] and [/codeblocks]; State has no script_language_parity_check
Codeblocks(c, tag_state, pre_text, post_text) ==
    IF tag_state.closing
    THEN IF ~c.has_codeblocks_gdscript \/ ~c.has_codeblocks_csharp
         THEN [c EXCEPT !.ts = Fault(@, "AttributeError")]
         ELSE Substituted([c EXCEPT !.has_codeblocks_gdscript = FALSE,
                                    !.has_codeblocks_csharp = FALSE,
                                    !.tag_depth = @ - 1,
                                    !.inside_code_tabs = FALSE],
                          pre_text, <<>>, post_text, FALSE, FALSE)
    ELSE Substituted([c EXCEPT !.tag_depth = @ + 1, !.inside_code_tabs = TRUE],
                     pre_text, <<"\n", ".", ".", " ", "tabs", ":", ":">>, post_text,
                     FALSE, FALSE)

\* [codeblock], [gdscript] and [csharp]
CodeblockTag(c, tag_state, pre_text, post_text) ==
    LET c1 == [c EXCEPT !.tag_depth = @ + 1, !.inside_code = TRUE,
                        !.inside_code_tag = tag_state.name,
                        !.ignore_code_warnings =
                            <<"skip", "-", "lint">> \in Range(tag_state.arguments)]
        lang == tag_state.name[1]
        c2 == IF ~c.inside_code_tabs
              THEN [c1 EXCEPT !.ts = print_error(@, "outside codeblocks")]
              ELSE IF lang = "gdscript"
              THEN [c1 EXCEPT !.has_codeblocks_gdscript = TRUE]
              ELSE [c1 EXCEPT !.has_codeblocks_csharp = TRUE]
    IN IF tag_state.name \in {<<"gdscript">>, <<"csharp">>}
       THEN Substituted(c2, pre_text,
                        <<"\n", " ", ".", ".", " ", "code", "-", "tab", ":", ":", " ",
                          lang, "\n">>, post_text, FALSE, FALSE)
       ELSE [c EXCEPT !.tag_depth = @ + 1, !.ts = Fault(@, "AttributeError")]

\* [code] with the flag ignore_code_warnings never set
CodeTagLinted(c, tag_state, pre_text, post_text) ==
    Substituted([c EXCEPT !.tag_depth = @ + 1, !.inside_code = TRUE,
                          !.inside_code_tag = <<"code">>],
                pre_text, <<Grave, Grave>>, post_text, TRUE, FALSE)

\* [code]
CodeTag(c, tag_state, pre_text, post_text) ==
    Substituted([c EXCEPT !.tag_depth = @ + 1, !.inside_code = TRUE,
                          !.inside_code_tag = <<"code">>,
                          !.ignore_code_warnings =
                              <<"skip", "-", "lint">> \in Range(tag_state.arguments)],
                pre_text, <<Grave, Grave>>, post_text, TRUE, FALSE)

\* the anchor without the kind of the reference
AnchorOfName(class_name, ref_type, target_name) ==
    <<"class", "_", class_name, "_", target_name>>

\* the anchor of a reference to a member of a class; the class None is
\* written "None"
Anchor(class_name, ref_type, target_name) ==
    <<"class", "_", class_name>> \o ref_type \o <<"_", target_name>>

\* the search of a [constant] reference: the class that holds the constant,
\* the last of the classes searched that does, or NONE
ConstantClass(ts, class_name, target_name, global) ==
    LET holds(doc) == \/ target_name \in ClassDocs[doc].constants
                      \/ \E e \in DOMAIN ClassDocs[doc].enums :
                            target_name \in ClassDocs[doc].enums[e].values
    IN IF global /\ holds(ts.classes["@GlobalScope"])
       THEN ClassDocs[ts.classes["@GlobalScope"]].name
       ELSE IF holds(ts.classes[class_name])
       THEN ClassDocs[ts.classes[class_name]].name
       ELSE NONE

\* a reference to a member: the checks on the symbol table and the text of
\* the reference; parts is what parse_link_target gave
MemberRef(c, kind, link_target, parts) ==
    LET class_name == parts[1]
        target_name == parts[2]
        t0 == IF Len(parts) > 2 THEN print_error(c.ts, "bad reference") ELSE c.ts
        known == class_name \in DOMAIN t0.classes
        doc == ClassDocs[t0.classes[class_name]]
        members == [method |-> doc.methods, constructor |-> doc.constructors,
                    operator |-> doc.operators, member |-> doc.properties,
                    signal |-> doc.signals, annotation |-> doc.annotations,
                    theme_item |-> DOMAIN doc.theme_items]
        global == Find(link_target, <<".">>, 0, Len(link_target)) = -1
        holder == ConstantClass(t0, class_name, target_name, global)
        ref_type ==
            IF known /\ kind = "method"
               /\ StartsWith(IF global THEN link_target
                             ELSE Split(link_target, ".")[2], <<"_">>)
            THEN <<"_", "private", "_", "method">>
            ELSE IF known /\ kind = "member" THEN <<"_", "property">>
            ELSE IF known /\ kind = "theme_item" /\ target_name \in members[kind]
            THEN <<"_", "theme", "_", doc.theme_items[target_name]>>
            ELSE IF kind = "theme_item" THEN <<"_", "theme", "_", "item">>
            ELSE <<"_", kind>>
        t1 == IF ~known THEN print_error(t0, "unresolved type")
              ELSE IF kind = "constant"
              THEN (IF holder = NONE THEN print_error(t0, "unresolved constant")
                    ELSE t0)
              ELSE IF target_name \notin members[kind]
              THEN print_error(t0, "unresolved " \o kind)
              ELSE t0
        target_class == IF known /\ kind = "constant" /\ holder # NONE
                        THEN holder ELSE class_name
    IN IF known /\ kind = "constant" /\ global /\ "@GlobalScope" \notin DOMAIN t0.classes
       THEN Made(Fault(t0, "KeyError"), <<>>)
       ELSE Made(t1, Ref(IF target_class # c.ts.current_class
                         THEN <<target_class, ".", target_name>>
                         ELSE <<target_name>>,
                         Anchor(target_class, ref_type, target_name)))

\* the tags that refer to items of this or of other classes
Crosslink(c, tag_state, pre_text, post_text) ==
    LET link_target == IF Len(tag_state.arguments) > 0 THEN tag_state.arguments[1]
                       ELSE <<>>
        kind == Join(tag_state.name)
        made == IF kind = "enum" THEN make_enum(link_target, FALSE, c.ts)
                ELSE MemberRef(c, kind, link_target,
                               parse_link_target(link_target, c.ts.current_class))
    IN IF link_target = <<>>
       THEN Substituted([c EXCEPT !.ts = print_error(@, "empty link")],
                        pre_text, <<>>, post_text, FALSE, FALSE)
       ELSE IF kind = "param"
       THEN Substituted(c, pre_text, <<Grave, Grave>> \o link_target \o <<Grave, Grave>>,
                        post_text, TRUE, TRUE)
       ELSE IF kind \in {"method", "constructor", "operator", "member", "signal",
                         "annotation", "theme_item", "constant", "enum"}
       THEN IF made.ts.status = "fault" THEN [c EXCEPT !.ts = made.ts]
            ELSE Substituted([c EXCEPT !.ts = made.ts], pre_text, made.out, post_text,
                             TRUE, TRUE)
       ELSE Substituted(c, pre_text, tag_state.raw, post_text, FALSE, FALSE)

\* [url=...]
UrlTag(c, tag_state, endq_pos) ==
    LET url_target == IF Len(tag_state.arguments) > 0 THEN tag_state.arguments[1]
                      ELSE <<>>
        close == <<"[", "/", "url", "]">>
        endurl_pos == Find(c.text, close, endq_pos + 1, Len(c.text))
        tag_text == make_link(url_target, Slice(c.text, endq_pos + 1, endurl_pos))
        pre_text == Slice(c.text, 0, c.pos)
        post_text == Tail0(c.text, endurl_pos + Len(close))
        pre == IF pre_text # <<>> /\ Last(pre_text) \notin MARKUP_ALLOWED_PRECEDENT
               THEN pre_text \o <<"\\", " ">> ELSE pre_text
        post == IF post_text # <<>> /\ post_text[1] \notin MARKUP_ALLOWED_SUBSEQUENT
                THEN <<"\\", " ">> \o post_text ELSE post_text
    IN IF url_target = <<>>
       THEN Substituted([c EXCEPT !.ts = print_error(@, "url")],
                        Slice(c.text, 0, c.pos), tag_state.raw,
                        Tail0(c.text, endq_pos + 1), FALSE, FALSE)
       ELSE IF endurl_pos = -1
       THEN [c EXCEPT !.ts = print_error(@, "no closing url"), !.broken = TRUE]
       ELSE [c EXCEPT !.text = pre \o tag_text \o post,
                      !.pos = Len(pre) + Len(tag_text)]

\* [br]: the spaces that follow are dropped
BrTag(c, pre_text, post_text) ==
    LET spaces == {n \in 0..Len(post_text) : \A j \in 1..n : post_text[j] = " "}
    IN IF Max(spaces) = Len(post_text)
       THEN [c EXCEPT !.ts = Fault(@, "IndexError")]
       ELSE Substituted(c, pre_text, <<"\n", "\n">>, Tail0(post_text, Max(spaces)),
                        FALSE, FALSE)

\* [center], [i], [b], [u], [kbd] and what closes them
FormatTag(c, tag_state, pre_text, post_text) ==
    LET tag == tag_state.name[1]
        mark == [center |-> <<>>, i |-> <<"*">>, b |-> <<"*", "*">>, u |-> <<>>,
                 kbd |-> IF tag_state.closing THEN <<Grave>>
                         ELSE <<":", "kbd", ":", Grave>>]
    IN IF tag_state.closing
       THEN Substituted([c EXCEPT !.tag_depth = @ - 1], pre_text, mark[tag],
                        post_text, FALSE, tag # "center")
       ELSE Substituted([c EXCEPT !.tag_depth = @ + 1], pre_text, mark[tag],
                        post_text, tag # "center", FALSE)

\* a tag that is none of the above
InvalidTag(c, tag_state, pre_text, tag_text, post_text) ==
    IF tag_state.closing
    THEN Substituted([c EXCEPT !.ts = print_error(@, "unrecognized closing tag")],
                     pre_text, <<"[">> \o tag_text \o <<"]">>, post_text, FALSE, FALSE)
    ELSE Substituted([c EXCEPT !.ts = print_error(@, "unrecognized opening tag")],
                     pre_text, <<Grave, Grave>> \o tag_text \o <<Grave, Grave>>,
                     post_text, TRUE, TRUE)

\* a reference to a class
ClassTagAlwaysLink(c, pre_text, tag_text, post_text) ==
    Substituted([c EXCEPT !.ts = make_type(tag_text, c.ts).ts], pre_text,
                make_type(tag_text, c.ts).out, post_text, TRUE, TRUE)

ClassTag(c, pre_text, tag_text, post_text) ==
    LET made == make_type(tag_text, c.ts)
    IN IF Join(tag_text) = c.ts.current_class
       THEN Substituted(c, pre_text, <<"*", "*">> \o tag_text \o <<"*", "*">>,
                        post_text, TRUE, TRUE)
       ELSE Substituted([c EXCEPT !.ts = made.ts], pre_text, made.out, post_text,
                        TRUE, TRUE)

\* one iteration of the loop on the tag from pos to endq_pos
Tag(c, endq_pos) ==
    LET pre_text == Slice(c.text, 0, c.pos)
        post_text == Tail0(c.text, endq_pos + 1)
        tag_text == Slice(c.text, c.pos + 1, endq_pos)
        tag_state == get_tag_and_args(tag_text)
    IN IF Join(tag_text) \in DOMAIN c.ts.classes /\ ~c.inside_code
       THEN ClassTag(c, pre_text, tag_text, post_text)
       ELSE IF c.inside_code
       THEN InsideCode(c, tag_state, pre_text, tag_text, post_text)
       ELSE IF tag_state.name = <<"codeblocks">>
       THEN Codeblocks(c, tag_state, pre_text, post_text)
       ELSE IF is_in_tagset(tag_state.name, RESERVED_CODEBLOCK_TAGS)
       THEN CodeblockTag(c, tag_state, pre_text, post_text)
       ELSE IF is_in_tagset(tag_state.name, {<<"code">>})
       THEN CodeTag(c, tag_state, pre_text, post_text)
       ELSE IF is_in_tagset(tag_state.name, RESERVED_CROSSLINK_TAGS)
       THEN Crosslink(c, tag_state, pre_text, post_text)
       ELSE IF is_in_tagset(tag_state.name, {<<"url">>})
       THEN UrlTag(c, tag_state, endq_pos)
       ELSE IF tag_state.name = <<"br">>
       THEN BrTag(c, pre_text, post_text)
       ELSE IF tag_state.name \in {<<"center">>, <<"i">>, <<"b">>, <<"u">>, <<"kbd">>}
       THEN FormatTag(c, tag_state, pre_text, post_text)
       ELSE InvalidTag(c, tag_state, pre_text, tag_text, post_text)

\* while True: the tags of the text from pos on; the log gets each tag
\* read, with inside_code and inside_code_tag as they are before it
RECURSIVE TagLoop(_)
TagLoop(c) ==
    LET pos == Find(c.text, <<"[">>, c.pos, Len(c.text))
        endq_pos == Find(c.text, <<"]">>, pos + 1, Len(c.text))
    IN IF c.ts.status # "run" \/ c.broken \/ pos = -1 \/ endq_pos = -1 THEN c
       ELSE TagLoop(Tag([c EXCEPT !.pos = pos,
                                  !.ts.log = Append(@, <<"tag",
                                                         Slice(c.text, pos + 1, endq_pos),
                                                         c.inside_code,
                                                         c.inside_code_tag>>)],
                        endq_pos))

\* after the loop: the depth of the tags is checked
DepthChecked(c) ==
    IF c.ts.status = "run" /\ c.tag_depth > 0
    THEN Made(print_error(c.ts, "depth"), c.text)
    ELSE Made(c.ts, c.text)

\* the tags of a text whose line breaks are done
Tags(broke) ==
    IF broke.ts.status = "stop" THEN Made([broke.ts EXCEPT !.status = "run"], <<>>)
    ELSE DepthChecked(TagLoop(
             [ts |-> broke.ts,
              text |-> escape_rst(broke.out, Find(broke.out, <<"[">>, 0, Len(broke.out))),
              pos |-> 0, tag_depth |-> 0, inside_code |-> FALSE,
              inside_code_tag |-> <<>>, inside_code_tabs |-> FALSE,
              ignore_code_warnings |-> FALSE, has_codeblocks_gdscript |-> FALSE,
              has_codeblocks_csharp |-> FALSE, broken |-> FALSE]))

\* format_text_block(text, context, state): the state after the call and
\* the text it returns (out), which means nothing when status is "fault"
format_text_block(txt, ts) == Tags(BreakLines(ts, txt, 0))

\* ------------------------------------------------------------------------
\* the calls of format_text_block
\* ------------------------------------------------------------------------
\* the pieces the texts are made of
Tokens ==
    {<<"x">>, <<" ">>, <<"\n">>, <<"*">>, <<"_">>,
     <<"[", "b", "]">>, <<"[", "/", "b", "]">>,
     <<"[", "code", "]">>, <<"[", "/", "code", "]">>,
     <<"[", "code", " ", "skip", "-", "lint", "]">>,
     <<"[", "br", "]">>,
     <<"[", "codeblock", "]">>,
     <<"[", "codeblocks", "]">>, <<"[", "/", "codeblocks", "]">>,
     <<"[", "gdscript", "]">>, <<"[", "/", "gdscript", "]">>,
     <<"[", "url", "=", "u", "]">>, <<"[", "/", "url", "]">>,
     <<"[", "method", " ", "bar", "]">>,
     <<"[", "constant", " ", "MAX", "]">>,
     <<"[", "Foo", "]">>}

MaxTokens == 2

\* the texts of n tokens at most
RECURSIVE TokenTexts(_)
TokenTexts(n) ==
    IF n = 0 THEN {<<>>}
    ELSE TokenTexts(n - 1)
         \cup {t \o tok : t \in TokenTexts(n - 1), tok \in Tokens}

\* some longer texts
Scenarios ==
    {<<"A", " ", "b", ".", "\t", "c", ",", " ", "d", "!">>,
     <<"See", " ", "[", "method", " ", "bar", "]", " ", "and", " ",
       "[", "method", " ", "Baz", ".", "qux", "]", ".">>,
     <<"[", "code", "]", "[", "/", "b", "]", "[", "/", "code", "]">>,
     <<"[", "code", " ", "skip", "-", "lint", "]", "a", "[", "/", "i", "]",
       "[", "/", "code", "]", "[", "b", "]">>,
     <<"x", "\n", "\t", "[", "gdscript", "]", "y", "\n", "\t", "\t", "z", "\n",
       "\t", "[", "/", "gdscript", "]", "[", "b", "]">>,
     <<"x", "\n", "[", "gdscript", "]", "[", "b", "]">>,
     <<"a", " ", "[", "url", "=", "u", "]", "t", "[", "b", "]", "c", "[", "/", "b", "]">>,
     <<"[", "url", "=", "$", "DOCS", "_", "URL", "/", "p", ".", "html", "#", "f", "]",
       "[", "/", "url", "]", "s">>,
     <<"[", "codeblocks", "]", "[", "gdscript", "]", "a", "_", " ", "[", "/", "gdscript",
       "]", "[", "csharp", "]", "[", "/", "csharp", "]", "[", "/", "codeblocks", "]">>,
     <<"[", "b", "]", "a", "[", "br", "]", " ", "b", "_", "c", "*", "[", "/", "b", "]",
       "[", "/", "b", "]">>,
     <<"[", "enum", " ", "Mode", "]", "[", "member", " ", "Foo", ".", "size", "]",
       "[", "theme", "_", "item", " ", "font", "]", "[", "constant", " ", "PI", "]",
       "[", "Node", "]", "[", "param", " ", "p", "]">>,
     <<"[", "method", "]", "[", "signal", " ", "nope", "]", "[", "b", "]", "x",
       "[", "/", "b", "]">>,
     <<"x", "[", "foo", "]", "y", "[", "/", "foo", "]", "[", "b", "]", "z",
       "[", "/", "b", "]">>,
     <<"[", "b", "]", "x", "[", "/", "foo", "]", "[", "foo", " ", "bar", "]">>,
     <<"\\", "*", "a", "_", "b", "_", "[", "center", "]", "\\", "*", "_", "x",
       "[", "/", "center", "]", "y", "_", " ", "*">>,
     <<"[", "center", "]", "*", "_", "[", "/", "center", "]", "_", "z">>,
     <<"[", "Foo", "]", "s", " ", "[", "@", "GlobalScope", "]", "[", "b", "]",
       "[", "Foo", "]", "[", "/", "b", "]", "[", "code", "]", "[", "Foo", "]",
       "[", "/", "code", "]">>,
     <<"[", "method", " ", "_", "go", "]", "[", "signal", " ", "timeout", "]",
       "[", "constant", " ", "Foo", ".", "MAX", "]", "[", "member", " ", "size", "]",
       "[", "theme", "_", "item", " ", "Foo", ".", "font", "]">>}

\* the configurations a call is made under: the symbol table with and
\* without the class of the global scope, a class or none as the current
\* class, each sink kept or discarded
TextConfigs ==
    {[classes |-> Classes, current_class |-> "Foo", error |-> "stderr",
      warning |-> NONE],
     [classes |-> Put(Classes, "@GlobalScope", "doc_Global"), current_class |-> "Foo",
      error |-> NONE, warning |-> "stderr"],
     [classes |-> Put(Classes, "@GlobalScope", "doc_Global"), current_class |-> NONE,
      error |-> "stderr", warning |-> "stderr"]}

MaxCalls == 2

TextInit ==
    /\ text \in TokenTexts(MaxTokens) \cup Scenarios
    /\ \E cfg \in TextConfigs :
          /\ classes = cfg.classes
          /\ current_class = cfg.current_class
          /\ error = cfg.error
          /\ warning = cfg.warning
    /\ num_errors = 0
    /\ num_warnings = 0
    /\ runs = <<>>
    /\ pc = "transpile"
    /\ project = <<>>
    /\ tscn = <<>>
    /\ scenes = EmptyMap
    /\ order = <<>>
    /\ heap = <<>>
    /\ types = <<>>
    /\ i = 0
    /\ size = 0
    /\ skipped = 0
    /\ scene = NoScene
    /\ outcome = NONE
    /\ report = <<>>
    /\ passes = 0
    /\ k = 0

\* the state a call of format_text_block starts in
CallState ==
    [classes |-> classes, current_class |-> current_class, error |-> error,
     warning |-> warning, num_errors |-> num_errors, num_warnings |-> num_warnings,
     log |-> <<>>, status |-> "run", fault |-> NONE]

\* what a call made: r is the result of format_text_block; a call that
\* raised returned no text
Transpiled(r) ==
    /\ num_errors' = r.ts.num_errors
    /\ num_warnings' = r.ts.num_warnings
    /\ runs' = Append(runs, [out |-> IF r.ts.status = "fault" THEN <<>> ELSE r.out,
                              fault |-> r.ts.fault, log |-> r.ts.log])
    /\ pc' = IF r.ts.status = "fault" THEN "raised" ELSE pc

\* a caller transpiles the text
Transpile ==
    /\ pc = "transpile"
    /\ Len(runs) < MaxCalls
    /\ Transpiled(format_text_block(text, CallState))
    /\ UNCHANGED <<loadVars, classes, warning, text, error, current_class>>

TextSpec == TextInit /\ [][Transpile]_vars

\* ------------------------------------------------------------------------
\* the diagnostics of format_text_block
\* ------------------------------------------------------------------------
\* C13: every report counts: a call of format_text_block adds to num_errors
\* the number of its calls of print_error and to num_warnings the number of
\* its calls of print_warning, whatever the sinks are, discarding or not
C13_EveryReportCounts ==
    [][pc = "transpile" =>
        LET log == Last(runs').log
        IN /\ num_errors' = num_errors
                + Cardinality({j \in DOMAIN log : log[j][1] = "error"})
           /\ num_warnings' = num_warnings
                + Cardinality({j \in DOMAIN log : log[j][1] = "warning"})]_vars

\* C14: format_text_block never fails outright: every call returns a text
\* and raises nothing
C14_NeverRaises ==
    /\ pc # "raised"
    /\ \A j \in DOMAIN runs : runs[j].fault = NONE

\* The structural tags of a text from pos on, read as the description of
\* the markup has it: the depth after each of them.  A structural tag opens
\* or closes i, b, u, center, code, a code block or codeblocks; inside is
\* the code tag that is open, inside of which only its own closing tag is a
\* tag.  The title of a link, up to [/url], holds no tags.
RECURSIVE TagDepths(_, _, _, _)
TagDepths(txt, pos, inside, depth) ==
    LET open == Find(txt, <<"[">>, pos, Len(txt))
        close == Find(txt, <<"]">>, open + 1, Len(txt))
        tag == get_tag_and_args(Slice(txt, open + 1, close))
        endurl == Find(txt, <<"[", "/", "url", "]">>, close + 1, Len(txt))
        structural == is_in_tagset(tag.name, {<<"i">>, <<"b">>, <<"u">>, <<"center">>,
                                              <<"code">>, <<"codeblock">>,
                                              <<"gdscript">>, <<"csharp">>,
                                              <<"codeblocks">>})
        code == is_in_tagset(tag.name, {<<"code">>, <<"codeblock">>, <<"gdscript">>,
                                        <<"csharp">>})
    IN IF open = -1 \/ close = -1 THEN <<>>
       ELSE IF inside # <<>>
       THEN IF tag.closing /\ tag.name = inside
            THEN <<depth - 1>> \o TagDepths(txt, close + 1, <<>>, depth - 1)
            ELSE TagDepths(txt, close + 1, inside, depth)
       ELSE IF tag.name = <<"url">> /\ tag.arguments # <<>> /\ endurl # -1
       THEN TagDepths(txt, endurl + 4, <<>>, depth)
       ELSE IF structural /\ tag.closing
       THEN <<depth - 1>> \o TagDepths(txt, close + 1, <<>>, depth - 1)
       ELSE IF structural
       THEN <<depth + 1>>
            \o TagDepths(txt, close + 1, IF code THEN tag.name ELSE <<>>, depth + 1)
       ELSE TagDepths(txt, close + 1, <<>>, depth)

\* C15: a call that returns reports no depth mismatch for a text whose
\* structural tags are well nested with as many closes as opens, and
\* reports exactly one for a text with more opens than closes or more
\* closes than opens
C15_DepthMismatchReportedOnce ==
    \A j \in DOMAIN runs :
        LET depths == TagDepths(text, 0, <<>>, 0)
            final == IF depths = <<>> THEN 0 ELSE Last(depths)
            reports == Cardinality({m \in DOMAIN runs[j].log :
                                       runs[j].log[m] = <<"error", "depth">>})
        IN runs[j].fault = NONE =>
              /\ (final = 0 /\ \A m \in DOMAIN depths : depths[m] >= 0) => reports = 0
              /\ final # 0 => reports = 1

\* C16: with class Foo, its method bar and no class Baz in the symbol
\* table, the first call on "See [method bar] and [method Baz.qux]." in the
\* context of Foo gives a reference anchored class_Foo_method_bar for the
\* first tag, the literal text Baz.qux and no reference for the second, and
\* adds exactly one to the error count
C16_UnresolvedMethodFallsBack ==
    (/\ text = <<"See", " ", "[", "method", " ", "bar", "]", " ", "and", " ",
                 "[", "method", " ", "Baz", ".", "qux", "]", ".">>
     /\ current_class = "Foo"
     /\ "bar" \in ClassDocs[classes["Foo"]].methods
     /\ "Baz" \notin DOMAIN classes
     /\ runs # <<>>)
    => LET out == runs[1].out
           first == <<"<">> \o Anchor("Foo", <<"_", "method">>, "bar") \o <<">">>
       IN /\ runs[1].fault = NONE
          /\ Join(first) = "<class_Foo_method_bar>"
          /\ Find(out, first, 0, Len(out)) # -1
          /\ Find(out, <<"Baz", ".", "qux">>, 0, Len(out)) # -1
          /\ Find(out, <<"<", "class", "_", "Baz">>, 0, Len(out)) = -1
          /\ Len(runs) = 1 => num_errors = 1

\* C17: a text without brackets, backslashes, asterisks, underscores and
\* line breaks is returned as it is, and no diagnostic is produced
C17_PlainTextUnchanged ==
    \A j \in DOMAIN runs :
        Range(text) \cap {"[", "]", "\\", "*", "_", "\n"} = {}
            => /\ runs[j].fault = NONE
               /\ runs[j].out = text
               /\ runs[j].log = <<>>

\* a plain text of words, spaces, a tab and punctuation was transpiled
C17_Witness ==
    /\ runs # <<>>
    /\ text = <<"A", " ", "b", ".", "\t", "c", ",", " ", "d", "!">>
    /\ runs[1].out = text

\* C18: the calls on the same text under the same symbol table and context
\* give the same text, with the same anchors, and the same diagnostics,
\* whatever the calls before them were and whatever the counts are
C18_RepeatedCallsAgree ==
    \A j, m \in DOMAIN runs : runs[j] = runs[m]

\* a text with a reference that resolves and one that does not was
\* transpiled twice, and the error count changed between the calls
C18_Witness ==
    /\ Len(runs) = 2
    /\ num_errors = 2
    /\ Find(runs[2].out, Anchor("Baz", <<"_", "method">>, "qux"), 0, Len(runs[2].out)) # -1
    /\ <<"error", "unresolved type">> \in Range(runs[2].log)

\* C19: after a [url=...] without [/url] the error is reported and a [b]
\* that follows is still replaced; after the opening tag of a code block
\* without its closing tag the error is reported and the word the text
\* starts with is still the start of the result
C19_ContinuesAfterMarkupError ==
    \A j \in DOMAIN runs :
        LET out == runs[j].out
            reported == \E m \in DOMAIN runs[j].log : runs[j].log[m][1] = "error"
            url == Find(text, <<"[", "url", "=">>, 0, Len(text))
            bold == Find(text, <<"[", "b", "]">>, url + 1, Len(text))
        IN runs[j].fault = NONE =>
              /\ (/\ url # -1
                  /\ Find(text, <<"[", "/", "url", "]">>, 0, Len(text)) = -1
                  /\ Find(text, <<"[", "code">>, 0, Len(text)) = -1)
                    => /\ reported
                       /\ bold # -1 => Find(out, <<"[", "b", "]">>, 0, Len(out)) = -1
              /\ \A tag \in RESERVED_CODEBLOCK_TAGS :
                    (/\ Find(text, <<"[">> \o tag \o <<"]">>, 0, Len(text)) # -1
                     /\ Find(text, <<"[", "/">> \o tag \o <<"]">>, 0, Len(text)) = -1
                     /\ text[1] \notin {"[", "\n", " ", "*", "_"})
                       => reported /\ out # <<>> /\ out[1] = text[1]

\* C20: a tag read while inside_code is set is either the closing tag of
\* the open code tag, after which the flag is clear, or it is in the result
\* as it is and the flag stays; the tag gives exactly one warning when it
\* looks like a closing tag, none when it does not or when the tag that
\* opened the code has skip-lint, and never an error
C20_InsideCodeVerbatim ==
    \A j \in DOMAIN runs :
        LET log == runs[j].log
            tags == {m \in DOMAIN log : log[m][1] = "tag"}
        IN \A m \in tags :
              LET tag == get_tag_and_args(log[m][2])
                  opener == Max({n \in tags : n < m /\ ~log[n][3]})
                  later == {n \in tags : n > m}
                  next == IF later = {} THEN Len(log) + 1
                          ELSE CHOOSE n \in later : \A n2 \in later : n <= n2
                  reports == SelectSeq(SubSeq(log, m + 1, next - 1),
                                       LAMBDA e : e # <<"error", "depth">>)
                  skip == <<"skip", "-", "lint">>
                             \in Range(get_tag_and_args(log[opener][2]).arguments)
              IN log[m][3] =>
                    IF tag.closing /\ tag.name = log[m][4]
                    THEN /\ next <= Len(log) => ~log[next][3]
                         /\ reports = <<>>
                    ELSE /\ runs[j].fault = NONE =>
                               Find(runs[j].out, <<"[">> \o tag.raw \o <<"]">>, 0,
                                    Len(runs[j].out)) # -1
                         /\ next <= Len(log) => log[next][3]
                         /\ reports = IF tag.closing /\ ~skip
                                      THEN <<<<"warning", "code">>>> ELSE <<>>

\* [/b] was read inside [code] and [/code] closed the code: the result has
\* [/b] as it is, and the call gave one warning and no error
C20_Witness ==
    /\ runs # <<>>
    /\ text = <<"[", "code", "]", "[", "/", "b", "]", "[", "/", "code", "]">>
    /\ runs[1].out = <<Grave, Grave, "[", "/", "b", "]", Grave, Grave>>
    /\ runs[1].log = << <<"tag", <<"code">>, FALSE, <<>> >>,
                       <<"tag", <<"/", "b">>, TRUE, <<"code">> >>,
                       <<"warning", "code">>,
                       <<"tag", <<"/", "code">>, TRUE, <<"code">> >> >>

\* ------------------------------------------------------------------------
\* instancing
\* ------------------------------------------------------------------------
\* the nodes below the node n, each with its path when n stands at path
RECURSIVE Below(_, _, _)
Below(hp, n, path) ==
    UNION {{<<ChildPath(path, hp[c].name), c>>}
              \cup Below(hp, c, ChildPath(path, hp[c].name)) :
           c \in Range(hp[n].children)}

C22_TreeAndPathMapAgree ==
    JustParsed =>
        /\ scene.root # 0
        /\ LET below == Below(heap, scene.root, ".")
               reach == {<<".", scene.root>>} \cup below
           IN /\ \A d \in below : d[2] # scene.root
              /\ \A d \in reach :
                    \A e \in Below(heap, d[2], d[1]) : e[2] # d[2]
              /\ \A d1, d2 \in reach : d1[1] = d2[1] => d1[2] = d2[2]
              /\ \A p \in DOMAIN scene.nodes \ {"."} :
                    \E q \in DOMAIN scene.nodes :
                        /\ scene.nodes[p] \in Range(heap[scene.nodes[q]].children)
                        /\ p = ChildPath(q, heap[scene.nodes[p]].name)
              /\ \A d \in reach :
                    d[1] \in DOMAIN scene.nodes /\ scene.nodes[d[1]] = d[2]

C24_NestedReferences ==
    [][pc = "for" =>
        LET file == Catalogue[tscn[i]]
            r == ParseFile(file, scenes, heap, types, num_errors, error)
            owner(j) == Max({0} \cup {m \in 1..(j - 1) :
                                         StartsWithBracket(file.lines[m])})
            nested(j) == /\ file.lines[j].k = "prop"
                         /\ file.lines[j].ref \in {"ext", "sub"}
                         /\ owner(j) # 0
                         /\ file.lines[owner(j)].k = "sub"
            declared(j) == \E m \in 1..(j - 1) :
                              /\ file.lines[m].k = file.lines[j].ref
                              /\ file.lines[m].id = file.lines[j].id
            bad == {j \in DOMAIN file.lines : nested(j) /\ ~declared(j)}
            stop == IF bad = {} THEN Len(file.lines) + 1
                    ELSE CHOOSE j \in bad : \A j2 \in bad : j <= j2
            refs(m) == {j \in 1..(stop - 1) : nested(j) /\ owner(j) = m}
            nth(S, n) == CHOOSE x \in S : Cardinality({y \in S : y < x}) = n - 1
        IN r.status \notin {"notready", "fault", "badversion"} =>
             /\ \A m \in 1..(stop - 1) :
                   file.lines[m].k = "sub" =>
                     /\ file.lines[m].id \in DOMAIN r.sub
                     /\ r.sub[file.lines[m].id].sub_resources =
                          [n \in 1..Cardinality(refs(m)) |->
                              <<file.lines[nth(refs(m), n)].ref,
                                file.lines[nth(refs(m), n)].id>>]
             /\ bad # {} =>
                   /\ scene'.root = 0
                   /\ scene'.nodes = EmptyMap
                   /\ scene'.signals = EmptyMap
                   /\ error # NONE => num_errors' > num_errors]_vars

\* ------------------------------------------------------------------------
\* connect_script on a script that can be bound
\* ------------------------------------------------------------------------
\* C25: connect_script on a node whose script is not in state.scripts and
\* declares a class of state.classes raises nothing, makes that class the
\* type of the node and the document of the class its script, and leaves
\* the type and the script of every other node with another script path
\* as they were
C25_BindingTouchesOnlyTheNode ==
    pc = "attach" =>
        \A n \in DOMAIN heap :
            (/\ heap[n].script_path # NONE
             /\ heap[n].script = NONE
             /\ heap[n].script_path \notin DOMAIN Scripts
             /\ GdHeader(heap[n].script_path) \in DOMAIN Classes) =>
                LET class == GdHeader(heap[n].script_path)
                    b == ConnectScript([heap |-> heap, types |-> types,
                                        errors |-> num_errors, status |-> "run",
                                        fault |-> NONE, scene |-> NONE], n)
                    type(hp, tp, m) == IF hp[m].type = 0 THEN NONE
                                       ELSE tp[hp[m].type]
                IN /\ b.status = "run"
                   /\ type(b.heap, b.types, n) = class
                   /\ b.heap[n].script = Classes[class]
                   /\ \A m \in DOMAIN heap \ {n} :
                         heap[m].script_path # heap[n].script_path =>
                            /\ type(b.heap, b.types, m) = type(heap, types, m)
                            /\ b.heap[m].script = heap[m].script

\* ------------------------------------------------------------------------
\* connect_scripts: the connections
\* ------------------------------------------------------------------------
\* C26: when connect_scripts returns for a scene, each connection of the
\* scene has a signal exactly when one of its emitters has a script whose
\* signals hold the name of the connection, the signal is the entry of
\* such an emitter's script for that name, and the counts of errors and
\* warnings are what the pass over the nodes left
C26_SignalResolvedFromEmitters ==
    [][(pc = "attach" /\ k <= Len(order) /\ pc' = "attach") =>
        LET before == scenes[order[k]]
            after  == scenes'[order[k]]
            nodes  == ConnectNodes([heap |-> heap, types |-> types,
                                    errors |-> num_errors, status |-> "run",
                                    fault |-> NONE, scene |-> before],
                                   <<before.root>>)
        IN /\ DOMAIN after.signals = DOMAIN before.signals
           /\ \A name \in DOMAIN after.signals :
                 LET conn == after.signals[name]
                     docs == {heap'[conn.emitters[e]].script :
                                 e \in DOMAIN conn.emitters} \ {NONE}
                     with == {d \in docs : conn.name \in DocSignals[d]}
                 IN /\ conn.name = name
                    /\ conn.emitters = before.signals[name].emitters
                    /\ conn.receivers = before.signals[name].receivers
                    /\ (conn.signal # <<>>) <=> (with # {})
                    /\ conn.signal # <<>> =>
                          \E d \in with : conn.signal = <<d, conn.name>>
           /\ num_errors' = nodes.errors
           /\ num_warnings' = num_warnings]_vars

\* connect_scripts returned for b_inst_a: the connection pressed has two
\* emitters, the first without a script and the second with the document
\* of s1, and its signal is the entry of that document
C26_Witness ==
    /\ pc = "attach"
    /\ k > 1
    /\ scenes[order[k - 1]].file = "b_inst_a"
    /\ LET conn == scenes[order[k - 1]].signals["pressed"]
       IN /\ Len(conn.emitters) = 2
          /\ heap[conn.emitters[1]].script = NONE
          /\ heap[conn.emitters[2]].script = "doc_s1"
          /\ conn.signal = <<"doc_s1", "pressed">>

\* ------------------------------------------------------------------------
\* load_files: when the scripts are attached
\* ------------------------------------------------------------------------
\* C27: while the retry loop runs no node has a script and no connection a
\* signal; the pass that attaches the scripts starts with the first scene
\* of state.scenes and only when the list of files is empty or a pass made
\* no progress; it takes the scenes one by one; and when load_files ends
\* after the loop was left by its end or by break, connect_scripts has
\* returned for every scene of state.scenes
C27_BinderRunsAfterLoopForEveryScene ==
    [][/\ k' = 0 =>
            /\ \A n \in DOMAIN heap' : heap'[n].script = NONE
            /\ \A p \in DOMAIN scenes' : \A name \in DOMAIN scenes'[p].signals :
                   scenes'[p].signals[name].signal = <<>>
       /\ (k = 0 /\ k' > 0) =>
            /\ k' = 1
            /\ tscn = <<>> \/ skipped = size
       /\ k > 0 =>
            /\ k' \in {k, k + 1}
            /\ order' = order
            /\ DOMAIN scenes' = DOMAIN scenes
            /\ \A j \in DOMAIN order :
                   j # k => scenes'[order[j]].signals = scenes[order[j]].signals
       /\ (k' > 0 /\ pc' \in {"done", "raised"}) => k' = Len(order') + 1]_vars

\* ------------------------------------------------------------------------
\* [codeblocks] and the tags of code blocks
\* ------------------------------------------------------------------------
\* C28: for a [/codeblocks] read outside code, the call reports that a
\* script language is missing exactly when fewer than two of [gdscript] and
\* [csharp] were opened outside code since the [codeblocks] that it closes
\* (none when no [codeblocks] is open), and the call does not end at that
\* tag with an exception
C28_ParityReportedOnClose ==
    \A j \in DOMAIN runs :
        LET log == runs[j].log
            tags == {m \in DOMAIN log : log[m][1] = "tag" /\ ~log[m][3]}
            name(m) == get_tag_and_args(log[m][2]).name
            closing(m) == get_tag_and_args(log[m][2]).closing
        IN \A m \in tags :
              (name(m) = <<"codeblocks">> /\ closing(m)) =>
                LET since == Max({0} \cup {n \in tags : n < m
                                              /\ name(n) = <<"codeblocks">>})
                    open == since # 0 /\ ~closing(since)
                    variants == {name(n) : n \in {x \in tags :
                                    /\ open
                                    /\ since < x
                                    /\ x < m
                                    /\ ~closing(x)
                                    /\ name(x) \in {<<"gdscript">>, <<"csharp">>}}}
                    later == {n \in DOMAIN log : n > m /\ log[n][1] = "tag"}
                    next == IF later = {} THEN Len(log) + 1
                            ELSE CHOOSE n \in later : \A n2 \in later : n <= n2
                    parity == \E e \in (m + 1)..(next - 1) : log[e][2] = "parity"
                IN /\ parity <=> Cardinality(variants) < 2
                   /\ later = {} => runs[j].fault = NONE

\* C29: for a [codeblock], [gdscript] or [csharp] opened outside code, the
\* call reports that the tag belongs inside [codeblocks] exactly when no
\* [codeblocks] is open at the tag
C29_WrapperRecommendedOutsideOnly ==
    \A j \in DOMAIN runs :
        LET log == runs[j].log
            tags == {m \in DOMAIN log : log[m][1] = "tag" /\ ~log[m][3]}
            name(m) == get_tag_and_args(log[m][2]).name
            closing(m) == get_tag_and_args(log[m][2]).closing
        IN \A m \in tags :
              (name(m) \in RESERVED_CODEBLOCK_TAGS /\ ~closing(m)) =>
                LET since == Max({0} \cup {n \in tags : n < m
                                              /\ name(n) = <<"codeblocks">>})
                    open == since # 0 /\ ~closing(since)
                    later == {n \in DOMAIN log : n > m /\ log[n][1] = "tag"}
                    next == IF later = {} THEN Len(log) + 1
                            ELSE CHOOSE n \in later : \A n2 \in later : n <= n2
                    recommended ==
                        \E e \in (m + 1)..(next - 1) :
                            log[e][2] \in {"outside codeblocks", "codeblock"}
                IN recommended <=> ~open

\* ------------------------------------------------------------------------
\* [constant X] without a class
\* ------------------------------------------------------------------------
\* C30: for a tag [constant X] read outside code whose X names no class,
\* with the current class a class of state.classes: the call does not end
\* at the tag with an exception; when X is a constant or a value of an
\* enum of the current class, the result has the anchor of X in the
\* current class and not the anchor of X in @GlobalScope; when it is not
\* and @GlobalScope has X, the result has the anchor of X in @GlobalScope
C30_CurrentClassBeforeGlobalScope ==
    \A j \in DOMAIN runs :
        LET log == runs[j].log
            out == runs[j].out
            tags == {m \in DOMAIN log : log[m][1] = "tag"}
            holds(doc, x) ==
                \/ x \in ClassDocs[doc].constants
                \/ \E e \in DOMAIN ClassDocs[doc].enums :
                      x \in ClassDocs[doc].enums[e].values
            has(class, x) ==
                Find(out, <<"class", "_", class, "_", "constant", "_", x>>, 0,
                     Len(out)) # -1
        IN \A m \in tags :
              LET tag == get_tag_and_args(log[m][2])
                  x == tag.arguments[1][1]
              IN (/\ ~log[m][3]
                  /\ tag.name = <<"constant">>
                  /\ ~tag.closing
                  /\ tag.arguments # <<>>
                  /\ Len(tag.arguments[1]) = 1
                  /\ current_class \in DOMAIN classes) =>
                   /\ (\A n \in tags : n <= m) => runs[j].fault = NONE
                   /\ runs[j].fault = NONE =>
                        IF holds(classes[current_class], x)
                        THEN has(current_class, x) /\ ~has("@GlobalScope", x)
                        ELSE ("@GlobalScope" \in DOMAIN classes
                                /\ holds(classes["@GlobalScope"], x)) =>
                                  has("@GlobalScope", x)

\* ------------------------------------------------------------------------
\* references that do not resolve
\* ------------------------------------------------------------------------
\* C31: for a crosslink tag read outside code that has no argument, names
\* a class that is not in the symbol table or names an item its class does
\* not have under the kind of the tag, the call reports exactly one error
\* at the tag and adds to the error count the errors it reports, does not
\* end at the tag with an exception, and when it returns the result has
\* the text of the argument (of the tag, when it has no argument)
C31_UnresolvedReferenceCountsOnce ==
    [][pc = "transpile" =>
        LET run == Last(runs')
            log == run.log
            tags == {m \in DOMAIN log : log[m][1] = "tag"}
            holds(doc, x) ==
                \/ x \in ClassDocs[doc].constants
                \/ \E e \in DOMAIN ClassDocs[doc].enums :
                      x \in ClassDocs[doc].enums[e].values
            has(kind, doc, x) ==
                CASE kind = "method" -> x \in ClassDocs[doc].methods
                  [] kind = "constructor" -> x \in ClassDocs[doc].constructors
                  [] kind = "operator" -> x \in ClassDocs[doc].operators
                  [] kind = "member" -> x \in ClassDocs[doc].properties
                  [] kind = "signal" -> x \in ClassDocs[doc].signals
                  [] kind = "annotation" -> x \in ClassDocs[doc].annotations
                  [] kind = "theme_item" -> x \in DOMAIN ClassDocs[doc].theme_items
                  [] kind = "enum" -> x \in DOMAIN ClassDocs[doc].enums
                  [] OTHER -> holds(doc, x)
            resolved(kind, arg) ==
                LET dot == Find(arg, <<".">>, 0, Len(arg))
                    class == IF dot = -1 THEN current_class
                             ELSE Join(Slice(arg, 0, dot))
                    x == IF dot = -1 THEN Join(arg) ELSE Join(Tail0(arg, dot + 1))
                IN \/ class \in DOMAIN classes /\ has(kind, classes[class], x)
                   \/ /\ dot = -1
                      /\ kind \in {"constant", "enum"}
                      /\ class \in DOMAIN classes
                      /\ "@GlobalScope" \in DOMAIN classes
                      /\ has(kind, classes["@GlobalScope"], x)
        IN \A m \in tags :
                 LET tag == get_tag_and_args(log[m][2])
                     kind == Join(tag.name)
                     later == {n \in tags : n > m}
                     next == IF later = {} THEN Len(log) + 1
                             ELSE CHOOSE n \in later : \A n2 \in later : n <= n2
                     reports == SelectSeq(SubSeq(log, m + 1, next - 1),
                                          LAMBDA e : e # <<"error", "depth">>)
                     shown == IF tag.arguments = <<>> THEN tag.raw
                              ELSE tag.arguments[1]
                 IN (/\ ~log[m][3]
                     /\ ~tag.closing
                     /\ tag.name \in RESERVED_CROSSLINK_TAGS \ {<<"param">>}
                     /\ tag.arguments # <<>> => ~resolved(kind, tag.arguments[1])) =>
                      /\ Len(reports) = 1
                      /\ reports[1][1] = "error"
                      /\ num_errors' = num_errors
                           + Cardinality({n \in DOMAIN log : log[n][1] = "error"})
                      /\ later = {} => run.fault = NONE
                      /\ run.fault = NONE =>
                            Find(run.out, shown, 0, Len(run.out)) # -1]_vars

C33_UnrecognizedTagReportedAndKept ==
    [][pc = "transpile" =>
        LET run == Last(runs')
            log == run.log
            tags == {m \in DOMAIN log : log[m][1] = "tag"}
            formats == {<<"center">>, <<"i">>, <<"b">>, <<"u">>, <<"kbd">>}
            known == RESERVED_CODEBLOCK_TAGS \cup RESERVED_CROSSLINK_TAGS \cup formats
                       \cup {<<"codeblocks">>, <<"code">>, <<"url">>, <<"br">>}
            unknown(tag_text) ==
                /\ Join(tag_text) \notin DOMAIN classes
                /\ get_tag_and_args(tag_text).name \notin known
            opens == {p \in DOMAIN text : text[p] = "["}
            closers(p) == {q \in DOMAIN text : q > p /\ text[q] = "]"}
            close(p) == CHOOSE q \in closers(p) : \A q2 \in closers(p) : q <= q2
            body(p) == SubSeq(text, p + 1, close(p) - 1)
            nth(n) == CHOOSE p \in opens : Cardinality({q \in opens : q < p}) = n - 1
            plain == /\ \A p \in opens : \E q \in DOMAIN text : q > p /\ text[q] = "]"
                     /\ \A p \in opens :
                           /\ \A q \in (p + 1)..(close(p) - 1) : text[q] # "["
                           /\ \/ unknown(body(p))
                              \/ /\ get_tag_and_args(body(p)).name \in formats
                                 /\ Join(body(p)) \notin DOMAIN classes
            depth == Cardinality({p \in opens : /\ ~unknown(body(p))
                                              /\ ~get_tag_and_args(body(p)).closing})
                       - Cardinality({p \in opens : /\ ~unknown(body(p))
                                                  /\ get_tag_and_args(body(p)).closing})
        IN /\ \A m \in tags :
                 LET tag == get_tag_and_args(log[m][2])
                     later == {n \in tags : n > m}
                     next == IF later = {} THEN Len(log) + 1
                             ELSE CHOOSE n \in later : \A n2 \in later : n <= n2
                     reports == SelectSeq(SubSeq(log, m + 1, next - 1),
                                          LAMBDA e : e # <<"error", "depth">>)
                     shown == IF tag.closing THEN <<"[">> \o log[m][2] \o <<"]">>
                              ELSE <<Grave, Grave>> \o log[m][2] \o <<Grave, Grave>>
                 IN (~log[m][3] /\ unknown(log[m][2])) =>
                      /\ Len(reports) = 1
                      /\ reports[1][1] = "error"
                      /\ num_errors' = num_errors
                           + Cardinality({n \in DOMAIN log : log[n][1] = "error"})
                      /\ later = {} => run.fault = NONE
                      /\ later # {} => /\ ~log[next][3]
                                       /\ log[next][4] = log[m][4]
                      /\ run.fault = NONE =>
                            Find(run.out, shown, 0, Len(run.out)) # -1
           /\ (plain /\ \E p \in opens : unknown(body(p))) =>
                 /\ run.fault = NONE
                 /\ Cardinality(tags) = Cardinality(opens)
                 /\ \A n \in 1..Cardinality(opens) :
                       \E m \in tags : /\ Cardinality({m2 \in tags : m2 < m}) = n - 1
                                       /\ log[m][2] = body(nth(n))
                 /\ (depth > 0) <=> (\E n \in DOMAIN log : log[n] = <<"error", "depth">>)
       ]_vars

\* ------------------------------------------------------------------------
\* escaping of literal text
\* ------------------------------------------------------------------------
\* C34: when a call returns for a text without line breaks whose tags, if
\* any, are [center] and [/center] (tags that render as nothing), the
\* result is the text outside the tags with every backslash and every
\* asterisk escaped by a backslash, and every underscore escaped exactly
\* when the character after it in the text is not alphanumeric (none at
\* the end of the text), wherever the character stands
C34_LiteralTextEscaped ==
    \A j \in DOMAIN runs :
        LET opens == {p \in DOMAIN text : text[p] = "["}
            closers(p) == {q \in DOMAIN text : q >= p /\ text[q] = "]"}
            intag(p) == \E o \in opens : /\ o <= p
                                         /\ \A q \in closers(o) : p <= q
            centered == \A o \in opens :
                           \/ SubSeq(text, o, o + 2) = <<"[", "center", "]">>
                           \/ SubSeq(text, o, o + 3) = <<"[", "/", "center", "]">>
            escaped(p) ==
                IF text[p] \in {"\\", "*"} THEN <<"\\", text[p]>>
                ELSE IF text[p] = "_" /\ ~(p < Len(text) /\ IsAlnum(text[p + 1]))
                THEN <<"\\", "_">>
                ELSE <<text[p]>>
            RECURSIVE expected(_)
            expected(p) ==
                IF p > Len(text) THEN <<>>
                ELSE (IF intag(p) THEN <<>> ELSE escaped(p)) \o expected(p + 1)
        IN (/\ runs[j].fault = NONE
            /\ \A p \in DOMAIN text : text[p] # "\n"
            /\ centered) =>
             runs[j].out = expected(1)

\* ------------------------------------------------------------------------
\* a class name as a tag
\* ------------------------------------------------------------------------
\* C35: for a tag read outside code whose whole content is the name of a
\* class of the symbol table, the call reports nothing at the tag, does
\* not end at the tag with an exception, and when it returns the result
\* has, once for each such tag, the reference to the class when the name
\* is not the current class, and the name between two pairs of asterisks
\* when it is; the result then has no reference to the current class. For a
\* text whose tags are all formatting tags or class names, the depth
\* mismatch is reported exactly when the formatting tags alone leave the
\* depth above zero.
C35_ClassNameTag ==
    [][pc = "transpile" =>
        LET run == Last(runs')
            log == run.log
            out == run.out
            tags == {m \in DOMAIN log : log[m][1] = "tag"}
            formats == {<<"center">>, <<"i">>, <<"b">>, <<"u">>, <<"kbd">>}
            class(tag_text) == Join(tag_text) \in DOMAIN classes
            link(name) == <<":", "ref", ":", Grave, name, "<", "class", "_", name,
                            ">", Grave>>
            strong(name) == <<"*", "*", name, "*", "*">>
            count(pat) == Cardinality({p \in 1..(Len(out) - Len(pat) + 1) :
                                          SubSeq(out, p, p + Len(pat) - 1) = pat})
            opens == {p \in DOMAIN text : text[p] = "["}
            closers(p) == {q \in DOMAIN text : q > p /\ text[q] = "]"}
            close(p) == CHOOSE q \in closers(p) : \A q2 \in closers(p) : q <= q2
            body(p) == SubSeq(text, p + 1, close(p) - 1)
            plain == /\ \A p \in opens : closers(p) # {}
                     /\ \A p \in opens :
                           /\ \A q \in (p + 1)..(close(p) - 1) : text[q] # "["
                           /\ \/ class(body(p))
                              \/ get_tag_and_args(body(p)).name \in formats
            depth == Cardinality({p \in opens : /\ ~class(body(p))
                                              /\ ~get_tag_and_args(body(p)).closing})
                       - Cardinality({p \in opens : /\ ~class(body(p))
                                                  /\ get_tag_and_args(body(p)).closing})
        IN /\ \A m \in tags :
                 LET name == Join(log[m][2])
                     later == {n \in tags : n > m}
                     next == IF later = {} THEN Len(log) + 1
                             ELSE CHOOSE n \in later : \A n2 \in later : n <= n2
                     reports == SelectSeq(SubSeq(log, m + 1, next - 1),
                                          LAMBDA e : e # <<"error", "depth">>)
                     same == {n \in tags : ~log[n][3] /\ log[n][2] = log[m][2]}
                 IN (~log[m][3] /\ class(log[m][2])) =>
                      /\ reports = <<>>
                      /\ later = {} => run.fault = NONE
                      /\ later # {} => /\ ~log[next][3]
                                       /\ log[next][4] = log[m][4]
                      /\ run.fault = NONE =>
                            IF name = current_class
                            THEN /\ count(strong(name)) >= Cardinality(same)
                                 /\ count(link(name)) = 0
                            ELSE count(link(name)) = Cardinality(same)
           /\ (plain /\ \E p \in opens : class(body(p))) =>
                 /\ run.fault = NONE
                 /\ Cardinality(tags) = Cardinality(opens)
                 /\ (depth > 0) <=> (\E n \in DOMAIN log : log[n] = <<"error", "depth">>)
       ]_vars

\* a call returned for a text with the tags [Foo] and [@GlobalScope] read
\* outside code in the context of Foo: the result has Foo as emphasis and
\* the reference to @GlobalScope
C35_Witness ==
    /\ runs # <<>>
    /\ runs[1].fault = NONE
    /\ current_class = "Foo"
    /\ "@GlobalScope" \in DOMAIN classes
    /\ \E m \in DOMAIN runs[1].log : runs[1].log[m] = <<"tag", <<"Foo">>, FALSE, <<>>>>
    /\ \E m \in DOMAIN runs[1].log :
          runs[1].log[m] = <<"tag", <<"@", "GlobalScope">>, FALSE, <<>>>>
    /\ LET out == runs[1].out
       IN /\ Find(out, <<"*", "*", "Foo", "*", "*">>, 0, Len(out)) # -1
          /\ Find(out, <<"<", "class", "_", "@GlobalScope", ">">>, 0, Len(out)) # -1

\* ------------------------------------------------------------------------
\* the declarations after an override
\* ------------------------------------------------------------------------
\* C36: after a parse that read the whole file of a scene with a path
\* declared again, every node declaration that follows the later
\* declaration of that path has its node in the node map at its path and
\* among the children of the node at the path of its parent; the path
\* declared again is a key of the node map; and every connection line whose
\* endpoints are paths the file declares is in the record of its signal
C36_ParsingGoesOnAfterOverride ==
    [][(pc = "for" /\ outcome' = "ok" /\ scene'.overrides # <<>>) =>
        LET file  == Catalogue[tscn[i]]
            nodes == scene'.nodes
            path(decl) == IF decl.parent = NONE THEN "."
                          ELSE IF decl.parent = "." THEN decl.name
                          ELSE decl.parent \o "/" \o decl.name
            decls == {j \in DOMAIN file.lines : file.lines[j].k = "node"}
            declared == {path(file.lines[j]) : j \in decls}
            again(e) == Max({j \in decls : path(file.lines[j]) = e})
            wired(name) == {j \in DOMAIN file.lines :
                               /\ file.lines[j].k = "connection"
                               /\ file.lines[j].signal = name
                               /\ file.lines[j].from \in declared
                               /\ file.lines[j].to \in declared}
        IN \A e \in Range(scene'.overrides) :
              /\ e \in DOMAIN nodes
              /\ \A j \in decls :
                    LET decl == file.lines[j]
                    IN j > again(e) =>
                         /\ path(decl) \in DOMAIN nodes
                         /\ nodes[path(decl)] > Len(heap)
                         /\ heap'[nodes[path(decl)]].name = decl.name
                         /\ decl.parent # NONE =>
                              /\ decl.parent \in DOMAIN nodes
                              /\ nodes[path(decl)]
                                   \in Range(heap'[nodes[decl.parent]].children)
              /\ \A j \in DOMAIN file.lines :
                    file.lines[j].k = "connection" =>
                      LET name == file.lines[j].signal
                      IN /\ name \in DOMAIN scene'.signals
                         /\ Len(scene'.signals[name].emitters)
                              >= Cardinality(wired(name))]_vars

\* ------------------------------------------------------------------------
\* the registered scenes and a later parse
\* ------------------------------------------------------------------------
\* C37: a parse that read the whole file of a scene leaves every node of
\* the tree of every scene that was in the registry before the parse with
\* the children, the type, the script path and the script it had
C37_RegisteredTreesUntouched ==
    [][(pc = "for" /\ outcome' = "ok") =>
        \A s \in DOMAIN scenes :
            scenes[s].root # 0 =>
                LET type(hp, tp, m) == IF hp[m].type = 0 THEN NONE ELSE tp[hp[m].type]
                    tree == {scenes[s].root}
                              \cup {d[2] : d \in Below(heap, scenes[s].root, ".")}
                IN \A n \in tree :
                      /\ heap'[n].children = heap[n].children
                      /\ type(heap', types', n) = type(heap, types, n)
                      /\ heap'[n].script_path = heap[n].script_path
                      /\ heap'[n].script = heap[n].script]_vars

\* ------------------------------------------------------------------------
\* the two lists of a connection record
\* ------------------------------------------------------------------------
\* C38: in every state the emitters and the receivers of every connection
\* record, of the scene being parsed and of every scene of the registry,
\* have the same length; and after a parse that read the whole file, the
\* entries of each record can be numbered by connection lines of its
\* signal in the order of the file so that the i-th emitter is the node at
\* the source of the i-th line and the i-th receiver is the node at its
\* target with its method, every line left out having an endpoint that is
\* no key of the node map
C38_EmittersAndReceiversPaired ==
    [][/\ \A name \in DOMAIN scene'.signals :
             Len(scene'.signals[name].emitters) = Len(scene'.signals[name].receivers)
       /\ \A s \in DOMAIN scenes' : \A name \in DOMAIN scenes'[s].signals :
             Len(scenes'[s].signals[name].emitters)
               = Len(scenes'[s].signals[name].receivers)
       /\ (pc = "for" /\ outcome' = "ok") =>
             LET file  == Catalogue[tscn[i]]
                 nodes == scene'.nodes
             IN \A name \in DOMAIN scene'.signals :
                   LET rec == scene'.signals[name]
                       lines == {j \in DOMAIN file.lines :
                                    /\ file.lines[j].k = "connection"
                                    /\ file.lines[j].signal = name}
                   IN \E f \in [DOMAIN rec.emitters -> lines] :
                         /\ \A m1, m2 \in DOMAIN f : m1 < m2 => f[m1] < f[m2]
                         /\ \A m \in DOMAIN f :
                               LET l == file.lines[f[m]]
                               IN /\ l.from \in DOMAIN nodes
                                  /\ l.to \in DOMAIN nodes
                                  /\ rec.emitters[m] = nodes[l.from]
                                  /\ rec.receivers[m] = <<nodes[l.to], l.method>>
                         /\ \A j \in lines \ {f[m] : m \in DOMAIN f} :
                               \/ file.lines[j].from \notin DOMAIN nodes
                               \/ file.lines[j].to \notin DOMAIN nodes]_vars

\* a_plain was parsed: of the three lines of the signal pressed the first
\* and the third are in its record, paired, and the record of the signal
\* ready, whose one line has a target that is no node, has two empty lists
C38_Witness ==
    /\ JustParsed
    /\ scene.file = "a_plain"
    /\ scene.signals["pressed"].emitters
         = <<scene.nodes["Child"], scene.nodes["Child/Leaf"]>>
    /\ scene.signals["pressed"].receivers
         = <<<<scene.nodes["."], "on_pressed">>, <<scene.nodes["Child"], "on_leaf">>>>
    /\ Len(scene.signals["ready"].emitters) = 0
    /\ Len(scene.signals["ready"].receivers) = 0

\* ------------------------------------------------------------------------
\* the passes over the queue
\* ------------------------------------------------------------------------
\* C39: a pass starts at the last file of the queue with the queue as it
\* is; each attempt is made on the file at the position of the pass, moves
\* the position to the file before it and ends the pass exactly at the
\* first file, so that every file of the queue is attempted once in the
\* pass; the attempt leaves the queue as it is when it ended NotReady and
\* takes the attempted file, and no other, out of the queue otherwise; no
\* step puts a file into the queue; and while the loop runs every entry of
\* the registry stays in the registry as it is
C39_EachFileOncePerPass ==
    [][/\ (pc = "while" /\ pc' = "for") =>
             /\ tscn' = tscn
             /\ i' = Len(tscn)
       /\ pc = "for" =>
             /\ i \in 1..Len(tscn)
             /\ pc' \in {"for", "if"}
             /\ i' = i - 1
             /\ (pc' = "if") <=> (i = 1)
             /\ outcome' = "notready" => tscn' = tscn
             /\ outcome' # "notready" =>
                   tscn' = [m \in 1..(Len(tscn) - 1) |->
                               IF m < i THEN tscn[m] ELSE tscn[m + 1]]
       /\ \A m \in DOMAIN tscn' : \E n \in DOMAIN tscn : tscn'[m] = tscn[n]
       /\ Len(tscn') <= Len(tscn)
       /\ pc \in {"while", "for", "if"} =>
             \A s \in DOMAIN scenes :
                 s \in DOMAIN scenes' /\ scenes'[s] = scenes[s]]_vars

====
